---- MODULE Spec2Model ----
(***************************************************************************)
(* A model of the conduwuit homeserver core:                               *)
(*   - the outbound federation sender (src/service/sending/mod.rs),        *)
(*   - the join engine and the membership operations                       *)
(*     (src/api/client/membership.rs),                                     *)
(*   - the startup migrations (src/service/globals/migrations.rs).         *)
(* Each subsystem has its own specification over the shared variables; a   *)
(* subsystem's actions leave the other subsystem's variables unchanged.    *)
(***************************************************************************)
EXTENDS Integers, Sequences, FiniteSets, TLC

(***************************************************************************)
(* Bounds of the model.                                                    *)
(***************************************************************************)
MaxEvents == 3
MaxFailures == 2
MaxBackoffFailures == 55
MaxRunEvents == 2
MaxRequests == 2
MaxServers == 52
MaxOurs == 1
MaxTries == 10
MaxTicks == 2
MaxCalls == 2
MaxStoredVersion == 15
MaxStartups == 3
MaxOps == 3
MaxQueued == 32
MaxReceipts == 17

(***************************************************************************)
(* Program constants.                                                      *)
(***************************************************************************)
SELECT_EDU_LIMIT == 16
QUEUE_TAKE == 30
BACKOFF_BASE_SECS == 30
ONE_DAY == 86400
DATABASE_VERSION == 13
INCOMPATIBLE_ROOM_VERSION_LIMIT == 15
MAKE_JOIN_LIMIT == 50
MIN == 300
MAX == 86400

(***************************************************************************)
(* Generic helpers.                                                        *)
(***************************************************************************)
Min(a, b) == IF a <= b THEN a ELSE b

Max(a, b) == IF a >= b THEN a ELSE b

RECURSIVE SortedSeq(_)
SortedSeq(S) ==
    IF S = {} THEN <<>>
    ELSE LET m == CHOOSE x \in S : \A y \in S : x <= y
         IN <<m>> \o SortedSeq(S \ {m})

Take(s, n) == SubSeq(s, 1, Min(n, Len(s)))

Range(s) == {s[i] : i \in DOMAIN s}

RemoveAt(s, i) == SubSeq(s, 1, i - 1) \o SubSeq(s, i + 1, Len(s))

(***************************************************************************)
(* Outbound sender: state.                                                 *)
(***************************************************************************)
VARIABLES
    handler,            \* position of Service::handler: "init", "loop", "panicked"
    config,             \* startup_netburst, startup_netburst_keep
    current_transaction_status,
    outgoing,           \* per destination, the transactions in flight
    retrying,           \* per destination, the pending backoff timers
    active,             \* table active_requests: per destination, row keys
    queued,             \* table queued_requests: per destination, row keys
    new_transactions,   \* channel sender -> handler: <<dest, kind, key>>
    waking,             \* channel waking_sender -> waking_receiver
    latest_educount,    \* per peer, the stored EDU watermark
    count,              \* globals.next_count
    edus,               \* EDU sources: <<kind, count>> of local users' updates
    env,                \* what the environment may still do (bounds)
    last                \* the last step taken (history)

senderVars == <<handler, config, current_transaction_status, outgoing, retrying,
                active, queued, new_transactions, waking, latest_educount, count,
                edus, env, last>>

(***************************************************************************)
(* Join engine: state.                                                     *)
(***************************************************************************)
VARIABLES
    admins,             \* users for which users.is_admin holds
    deactivated,        \* users for which users.is_deactivated holds
    joined,             \* state_cache: <<user, room>> of the local users joined
    banned,             \* rooms for which metadata.is_banned holds
    guest_can_join,     \* rooms whose state lets guests join
    jconfig,            \* auto_deactivate_banned_room_attempts,
                        \* forbidden_remote_server_names
    timeline,           \* per room, the PDUs appended
    room_state,         \* per room, the current state (a set of state events)
    room_data,          \* per room, what else is stored (short id, outliers)
    fed,                \* federation requests sent so far
    jenv,               \* what the clients may still do (bounds)
    jlast               \* the last request and its response

joinVars == <<admins, deactivated, joined, banned, guest_can_join, jconfig, timeline,
              room_state, room_data, fed, jenv, jlast>>

(***************************************************************************)
(* make_join_request: state of one call.                                   *)
(***************************************************************************)
VARIABLES
    mj_pc,                              \* "idle", "loop", "returned", and in
                                        \* the caller "versioned", "sent",
                                        \* "failed"
    make_join_counter,                  \* u16
    incompatible_room_version_count,    \* u8
    make_join_response_and_server,      \* the value the call returns
    mj_hist                             \* what the call did so far (history);
                                        \* .server is the position in the list
                                        \* of the server returned with the
                                        \* response

makeJoinVars == <<mj_pc, make_join_counter, incompatible_room_version_count,
                  make_join_response_and_server, mj_hist>>

(***************************************************************************)
(* validate_and_add_event_id: state.                                       *)
(***************************************************************************)
VARIABLES
    bad_event_ratelimiter,  \* per event id, NoEntry or (last attempt, tries)
    now,                    \* Instant::now, in seconds
    benv,                   \* what the environment may still do (bounds)
    blast                   \* the last call and its result (history)

eventVars == <<bad_event_ratelimiter, now, benv, blast>>

(***************************************************************************)
(* Startup migrations: state of the database.                              *)
(***************************************************************************)
VARIABLES
    database_version,   \* globals.db.database_version
    users_count,        \* users.count
    server_user,        \* users.exists(globals.server_user)
    global,             \* the keys of table "global" besides the version
    menv,               \* what the operator may still do (bounds)
    mlast,              \* the last startup and its result (history)
    fix_runs,           \* per one-shot fix, its completed runs (history)
    created_fresh,      \* fresh() initialized this database (history)
    state_cache         \* rooms.state_cache and the member events of the
                        \* room states: per room, member (user -> membership),
                        \* roomuserid_joined and roomuserid_left (sets of users)

migrationVars == <<database_version, users_count, server_user, global, menv, mlast,
                   fix_runs, created_fresh, state_cache>>

(***************************************************************************)
(* Membership operations on one room and its state mutex: state.           *)
(***************************************************************************)
VARIABLES
    mutex,              \* rooms.state.mutex of the room: "free" or the holder
    task,               \* per request task, its operation and position
    pdus,               \* the member PDUs appended to the room, in order
    acquired,           \* the operations in the order they took the mutex
    lenv                \* what the clients may still do (bounds)

lockVars == <<mutex, task, pdus, acquired, lenv>>

(***************************************************************************)
(* Invite, unban and forget routes: the state they add to the join         *)
(* engine's.                                                               *)
(***************************************************************************)
VARIABLES
    membership,                 \* room state: per <<user, room>>, the membership
                                \* of its m.room.member event, or "none"
    forgotten,                  \* state_cache: the <<room, user>> forgotten
    block_non_admin_invites,    \* the configuration option
    rlast                       \* the last request and its response (history)

routeVars == <<membership, forgotten, block_non_admin_invites, rlast>>

besidesSender == <<joinVars, makeJoinVars, eventVars, migrationVars, lockVars,
                   routeVars>>

besidesJoin == <<senderVars, makeJoinVars, eventVars, migrationVars, lockVars,
                 routeVars>>

vars == <<senderVars, joinVars, makeJoinVars, eventVars, migrationVars, lockVars,
          routeVars>>

\* OutgoingDestination: one peer server and one push gateway.
Dests == {"Normal", "Push"}

IsNormal(d) == d = "Normal"

IsPush(d) == d = "Push"

\* TransactionStatus, and the vacant entry of the map.
Vacant == [kind |-> "Vacant", failures |-> 0, waker |-> FALSE]

Running == [kind |-> "Running", failures |-> 0, waker |-> FALSE]

Failed(n, w) == [kind |-> "Failed", failures |-> n, waker |-> w]

Retrying(n) == [kind |-> "Retrying", failures |-> n, waker |-> FALSE]

\* SendingEventType: the variant and its bytes (a tag and numbers).
Pdu(k) == <<"Pdu", <<"pdu", <<k>>>>>>

Edu(b) == <<"Edu", b>>

Flush == <<"Flush", <<"", <<>>>>>>

IsEdu(e) == e[1] = "Edu"

\* The rows of a table as the events of a transaction, in key order.
RowEvents(keys) == LET s == SortedSeq(keys) IN [i \in DOMAIN s |-> Pdu(s[i])]

\* A transaction in flight (handle_events): its events, and the step of the
\* handler that launched it.
Txn(events, origin) == [events |-> events, origin |-> origin]

NoTxn == Txn(<<>>, "none")

EduKinds == {"receipt", "devlist", "presence"}

\* The last step: the operation, its destination, the transaction it is
\* about and its outcome.
Op(o, d, t, r) == [op |-> o, dest |-> d, txn |-> t, res |-> r]

NoOp == Op("none", "none", NoTxn, "none")

(***************************************************************************)
(* select_edus: the EDUs of one transaction to a peer, and the new         *)
(* watermark.  The peer shares one room with this server; every update in  *)
(* `src` is the one of a local user the peer sees; its number is the count *)
(* it was stored under.  Device-list changes are taken in count order.     *)
(***************************************************************************)
SinceOf(src, kind, since) ==
    SortedSeq({e[2] : e \in {x \in src : x[1] = kind /\ x[2] > since}})

RECURSIVE select_edus_receipts(_, _, _)
select_edus_receipts(rs, events, max_edu_count) ==
    IF rs = <<>> THEN [events |-> events, max |-> max_edu_count, more |-> TRUE]
    ELSE LET ev == Append(events, Edu(<<"receipt", <<Head(rs)>>>>))
             mx == Max(Head(rs), max_edu_count)
         IN IF Len(ev) >= SELECT_EDU_LIMIT
            THEN [events |-> ev, max |-> mx, more |-> FALSE]
            ELSE select_edus_receipts(Tail(rs), ev, mx)

RECURSIVE presence_updates(_, _, _)
presence_updates(ps, updates, max_edu_count) ==
    IF ps = <<>> THEN [updates |-> updates, max |-> max_edu_count]
    ELSE LET up == Append(updates, Head(ps))
             mx == Max(Head(ps), max_edu_count)
         IN IF Len(up) >= SELECT_EDU_LIMIT
            THEN [updates |-> up, max |-> mx]
            ELSE presence_updates(Tail(ps), up, mx)

select_edus_presence(src, since, events, max_edu_count) ==
    LET p == presence_updates(SinceOf(src, "presence", since), <<>>, max_edu_count)
    IN [events |-> Append(events, Edu(<<"presence", p.updates>>)), max |-> p.max]

select_edus(src, since) ==
    LET device_list_changes == SinceOf(src, "devlist", since)
        r == select_edus_receipts(SinceOf(src, "receipt", since), <<>>, since)
        withDevices == r.events \o [i \in DOMAIN device_list_changes |->
                                        Edu(<<"devlist", <<device_list_changes[i]>>>>)]
    IN select_edus_presence(src, since, withDevices, r.max)

(***************************************************************************)
(* The transaction id: calculate_hash over the bytes of the events of the  *)
(* transaction, a Flush giving the empty slice.  The hash is taken to be   *)
(* free of collisions.                                                     *)
(***************************************************************************)
transaction_id(events) == [i \in DOMAIN events |-> events[i][2]]

(***************************************************************************)
(* Exponential backoff of mark_failed_and_backoff, in seconds.             *)
(***************************************************************************)
\* Variant of Backoff: a wait that grows linearly.
Backoff_linear(failures) == Min(BACKOFF_BASE_SECS * failures, ONE_DAY)

Backoff(failures) == Min(BACKOFF_BASE_SECS * failures * failures, ONE_DAY)

\* The interruptible sleep of wrap_in_interruptible_sleep, with the
\* transaction whose failure started it.
Timer(failures, txn) == [delay |-> Backoff(failures), woken |-> FALSE, txn |-> txn]

(***************************************************************************)
(* Initial state: the handler is about to start on a fresh database.  The  *)
(* rows of an earlier run are those a restart leaves behind.               *)
(***************************************************************************)
Configs == {[startup_netburst |-> FALSE, startup_netburst_keep |-> k] : k \in {-1}}
           \cup {[startup_netburst |-> TRUE, startup_netburst_keep |-> k] : k \in -1 .. 1}

SenderInit(events, failcap) ==
    /\ handler = "init"
    /\ config \in Configs
    /\ current_transaction_status = [d \in Dests |-> Vacant]
    /\ outgoing = [d \in Dests |-> <<>>]
    /\ retrying = [d \in Dests |-> <<>>]
    /\ active = [d \in Dests |-> {}]
    /\ queued = [d \in Dests |-> {}]
    /\ new_transactions = <<>>
    /\ waking = <<>>
    /\ latest_educount = 0
    /\ count = 0
    /\ edus = {}
    /\ env = [events |-> events, restarted |-> FALSE, failcap |-> failcap]
    /\ last = NoOp

Users == {"@alice", "@bob"}

Rooms == {"!home", "!far"}

\* The join engine at rest, while the sender runs.
JoinIdle ==
    /\ admins = {}
    /\ deactivated = {}
    /\ joined = {}
    /\ banned = {}
    /\ guest_can_join = {}
    /\ jconfig = [auto_deactivate_banned_room_attempts |-> FALSE,
                  forbidden_remote_server_names |-> {}]
    /\ timeline = [r \in Rooms |-> <<>>]
    /\ room_state = [r \in Rooms |-> {}]
    /\ room_data = [r \in Rooms |-> {}]
    /\ fed = 0
    /\ jenv = [requests |-> 0]
    /\ jlast = [op |-> "none", user |-> "none", room |-> "none", result |-> "none",
                path |-> "none", auth |-> "none", alias |-> "none",
                via |-> <<>>]

\* make_join_request is not running.
NoHist == [visited |-> 0, ours |-> 0, requests |-> 0, run |-> 0, aborted |-> "none",
           server |-> 0, version |-> "none", send_join |-> <<>>]

MakeJoinIdle ==
    /\ mj_pc = "idle"
    /\ make_join_counter = 0
    /\ incompatible_room_version_count = 0
    /\ make_join_response_and_server = "none"
    /\ mj_hist = NoHist

\* No event failed its verification.
EventIds == {"$a", "$b"}

NoEntry == [time |-> -1, tries |-> 0]

NoCall == [op |-> "none", id |-> "none", result |-> "none", verified |-> FALSE]

EventIdle ==
    /\ bad_event_ratelimiter = [e \in EventIds |-> NoEntry]
    /\ now = 0
    /\ benv = [calls |-> 0, ticks |-> 0]
    /\ blast = NoCall

\* The database is at the version of the code and the server does not start.
Fixes == {"fix_bad_double_separator_in_state_cache",
          "retroactively_fix_bad_data_from_roomuserid_joined"}

Sentinels == Fixes \cup {"feat_sha256_media"}

NoStartup == [result |-> "none", path |-> "none", before |-> 0, ran |-> <<>>,
              fixes |-> <<>>, failed |-> "none"]

\* A state cache that agrees with the member events.
CleanStateCache ==
    [member |-> [r \in {"!home", "!far"} |-> [u \in {"@alice", "@bob"} |->
                    IF r = "!home" /\ u = "@alice" THEN "join" ELSE "leave"]],
     roomuserid_joined |-> [r \in {"!home", "!far"} |->
                               IF r = "!home" THEN {"@alice"} ELSE {}],
     roomuserid_left |-> [r \in {"!home", "!far"} |->
                             IF r = "!home" THEN {"@bob"} ELSE {}]]

MigrationIdle ==
    /\ state_cache = CleanStateCache
    /\ database_version = DATABASE_VERSION
    /\ users_count = 1
    /\ server_user = TRUE
    /\ global = Sentinels
    /\ menv = [startups |-> 0]
    /\ mlast = NoStartup
    /\ fix_runs = [f \in Fixes |-> 0]
    /\ created_fresh = FALSE

\* No membership operation is under way.
Tasks == {"t1", "t2"}

IdleTask == [op |-> "none", pc |-> "idle", ticket |-> 0, seen |-> 0]

LockIdle ==
    /\ mutex = "free"
    /\ task = [t \in Tasks |-> IdleTask]
    /\ pdus = <<>>
    /\ acquired = <<>>
    /\ lenv = [ops |-> 0]

\* No invite, unban or forget request was made.
Memberships == {"none", "join", "invite", "leave", "ban", "knock"}

NoRequest == [op |-> "none", sender |-> "none", target |-> "none", room |-> "none",
              result |-> "none", path |-> "none", built |-> 0, before |-> "none"]

\* The users of this server, and one of the remote server.
Members == Users \cup {"@carol"}

RouteIdle ==
    /\ membership = [k \in Members \X Rooms |-> "none"]
    /\ forgotten = {}
    /\ block_non_admin_invites = FALSE
    /\ rlast = NoRequest

ServicesIdle == MakeJoinIdle /\ EventIdle /\ MigrationIdle /\ LockIdle

OthersIdle == ServicesIdle /\ RouteIdle

Init == SenderInit(MaxEvents, MaxFailures) /\ JoinIdle /\ OthersIdle

\* Variant of Kept: a reload that keeps no row.
Kept_none(d) == {}

Kept(d) ==
    IF config.startup_netburst_keep < 0 THEN active[d]
    ELSE Range(Take(SortedSeq(active[d]), config.startup_netburst_keep))

\* The rows the reload deletes (delete_active_request).
Dropped == UNION {active[d] \ Kept(d) : d \in Dests}

StartHandler ==
    /\ handler = "init"
    /\ handler' = "loop"
    /\ IF config.startup_netburst
       THEN /\ active' = [d \in Dests |-> Kept(d)]
            /\ current_transaction_status' =
                   [d \in Dests |-> IF active[d] # {} THEN Running ELSE Vacant]
            /\ outgoing' = [d \in Dests |->
                               IF active[d] # {}
                               THEN <<Txn(RowEvents(Kept(d)), "startup")>> ELSE <<>>]
            /\ last' = Op("startup", "none", Txn(RowEvents(Dropped), "dropped"), "netburst")
       ELSE /\ last' = Op("startup", "none", NoTxn, "none")
            /\ UNCHANGED <<active, current_transaction_status, outgoing>>
    /\ UNCHANGED <<config, retrying, queued, new_transactions, waking, latest_educount,
                   count, edus, env>>
    /\ UNCHANGED besidesSender

(***************************************************************************)
(* The application: send_pdu_* and send_edu_* queue a row and send it to   *)
(* the handler; flush_servers sends a Flush without a row; local users     *)
(* produce receipts, device-list changes and presence updates.             *)
(***************************************************************************)
send_pdu(d) ==
    /\ handler # "init"
    /\ env.events > 0
    /\ count' = count + 1
    /\ queued' = [queued EXCEPT ![d] = @ \cup {count + 1}]
    /\ new_transactions' = Append(new_transactions, <<d, "Pdu", count + 1>>)
    /\ env' = [env EXCEPT !.events = @ - 1]
    /\ last' = Op("env", d, NoTxn, "none")
    /\ UNCHANGED <<handler, config, current_transaction_status, outgoing, retrying,
                   active, waking, latest_educount, edus>>
    /\ UNCHANGED besidesSender

flush_servers(d) ==
    /\ handler # "init"
    /\ IsNormal(d)
    /\ env.events > 0
    /\ new_transactions' = Append(new_transactions, <<d, "Flush", 0>>)
    /\ env' = [env EXCEPT !.events = @ - 1]
    /\ last' = Op("env", d, NoTxn, "none")
    /\ UNCHANGED <<handler, config, current_transaction_status, outgoing, retrying,
                   active, queued, waking, latest_educount, count, edus>>
    /\ UNCHANGED besidesSender

NewEdu(kind) ==
    /\ handler # "init"
    /\ env.events > 0
    /\ count' = count + 1
    /\ edus' = edus \cup {<<kind, count + 1>>}
    /\ env' = [env EXCEPT !.events = @ - 1]
    /\ last' = Op("env", "none", NoTxn, "none")
    /\ UNCHANGED <<handler, config, current_transaction_status, outgoing, retrying,
                   active, queued, new_transactions, waking, latest_educount>>
    /\ UNCHANGED besidesSender

(***************************************************************************)
(* The server stops and starts again: what the handler task and the        *)
(* channels held is lost, the database is kept.                            *)
(***************************************************************************)
Restart ==
    /\ handler # "init"
    /\ ~env.restarted
    /\ handler' = "init"
    /\ current_transaction_status' = [d \in Dests |-> Vacant]
    /\ outgoing' = [d \in Dests |-> <<>>]
    /\ retrying' = [d \in Dests |-> <<>>]
    /\ new_transactions' = <<>>
    /\ waking' = <<>>
    /\ env' = [env EXCEPT !.restarted = TRUE]
    /\ last' = Op("restart", "none", NoTxn, "none")
    /\ UNCHANGED <<config, active, queued, latest_educount, count, edus>>
    /\ UNCHANGED besidesSender

(***************************************************************************)
(* Panics of the handler task (unreachable!, expect) end it.               *)
(***************************************************************************)
Panic(o, d) ==
    /\ handler' = "panicked"
    /\ last' = Op(o, d, NoTxn, "panic")

\* The events of a transaction to d: the rows given, and for a peer the EDUs
\* of select_edus.
WithEdus(d, events) ==
    IF IsNormal(d) THEN events \o select_edus(edus, latest_educount).events ELSE events

NextEducount(d) ==
    IF IsNormal(d) THEN select_edus(edus, latest_educount).max ELSE latest_educount

(***************************************************************************)
(* select_events_current: what a destination in status st allows, and the  *)
(* status it leaves; `panic` where the function hits unreachable!.         *)
(***************************************************************************)
Current(allow, retry, wake_up, st, panic) ==
    [allow |-> allow, retry |-> retry, wake_up |-> wake_up, status |-> st, panic |-> panic]

\* Variants of select_events_current: one that lets a fresh event through
\* whatever the status, one that never wakes a sleeping destination.
select_events_current_parallel(st, fresh) ==
    IF fresh
    THEN CASE st.kind = "Failed" -> Current(TRUE, FALSE, TRUE, st, FALSE)
           [] OTHER -> Current(TRUE, FALSE, FALSE, Running, FALSE)
    ELSE IF st.kind = "Failed"
         THEN Current(TRUE, TRUE, FALSE, Retrying(st.failures), FALSE)
         ELSE Current(TRUE, FALSE, FALSE, st, TRUE)

select_events_current_nowake(st, fresh) ==
    IF fresh
    THEN CASE st.kind = "Vacant" -> Current(TRUE, FALSE, FALSE, Running, FALSE)
           [] OTHER -> Current(FALSE, FALSE, FALSE, st, FALSE)
    ELSE IF st.kind = "Failed"
         THEN Current(TRUE, TRUE, FALSE, Retrying(st.failures), FALSE)
         ELSE Current(TRUE, FALSE, FALSE, st, TRUE)

select_events_current(st, fresh) ==
    IF fresh
    THEN CASE st.kind = "Vacant" -> Current(TRUE, FALSE, FALSE, Running, FALSE)
           [] st.kind \in {"Running", "Retrying"} -> Current(FALSE, FALSE, FALSE, st, FALSE)
           [] st.kind = "Failed" -> Current(TRUE, FALSE, TRUE, st, FALSE)
    ELSE IF st.kind = "Failed"
         THEN Current(TRUE, TRUE, FALSE, Retrying(st.failures), FALSE)
         ELSE Current(TRUE, FALSE, FALSE, st, TRUE)

(***************************************************************************)
(* handler, branch 4: a new event from the application, with               *)
(* select_events(fresh = true).                                            *)
(***************************************************************************)
HandleNewEvent ==
    /\ handler = "loop"
    /\ new_transactions # <<>>
    /\ LET d == Head(new_transactions)[1]
           kind == Head(new_transactions)[2]
           key == Head(new_transactions)[3]
           cur == select_events_current(current_transaction_status[d], TRUE)
       IN /\ new_transactions' = Tail(new_transactions)
          /\ current_transaction_status' =
                 [current_transaction_status EXCEPT ![d] = cur.status]
          /\ IF cur.wake_up
             THEN /\ waking' = Append(waking, d)
                  /\ last' = Op("new", d, NoTxn, "Wake")
                  /\ UNCHANGED <<active, queued, outgoing, latest_educount>>
             ELSE IF ~cur.allow
             THEN /\ last' = Op("new", d, NoTxn, "Nothing")
                  /\ UNCHANGED <<active, queued, outgoing, latest_educount, waking>>
             ELSE \* mark_as_active, compose and send
                  /\ IF kind = "Pdu"
                     THEN /\ active' = [active EXCEPT ![d] = @ \cup {key}]
                          /\ queued' = [queued EXCEPT ![d] = @ \ {key}]
                     ELSE UNCHANGED <<active, queued>>
                  /\ outgoing' = [outgoing EXCEPT ![d] = Append(@,
                         Txn(WithEdus(d, <<IF kind = "Pdu" THEN Pdu(key) ELSE Flush>>),
                             "new"))]
                  /\ latest_educount' = NextEducount(d)
                  /\ last' = Op("new", d, outgoing'[d][Len(outgoing'[d])], "Send")
                  /\ UNCHANGED waking
    /\ UNCHANGED <<handler, config, retrying, count, edus, env>>
    /\ UNCHANGED besidesSender

(***************************************************************************)
(* handler, branch 3: an explicit wake.                                    *)
(***************************************************************************)
HandleWake ==
    /\ handler = "loop"
    /\ waking # <<>>
    /\ LET d == Head(waking)
           st == current_transaction_status[d]
       IN /\ waking' = Tail(waking)
          /\ IF st.kind = "Failed" /\ st.waker
             THEN /\ current_transaction_status' =
                         [current_transaction_status EXCEPT ![d].waker = FALSE]
                  /\ retrying' = [retrying EXCEPT ![d][Len(retrying[d])].woken = TRUE]
                  /\ last' = Op("wake", d, NoTxn, "sent")
             ELSE /\ last' = Op("wake", d, NoTxn, "ignored")
                  /\ UNCHANGED <<current_transaction_status, retrying>>
    /\ UNCHANGED <<handler, config, outgoing, active, queued, new_transactions,
                   latest_educount, count, edus, env>>
    /\ UNCHANGED besidesSender

(***************************************************************************)
(* handler, branch 2: a retry timer fires, with select_events(fresh =     *)
(* false).                                                                 *)
(***************************************************************************)
\* The timers left when timer i is taken; a waker dropped with the status
\* entry resolves the sleep it belongs to (the newest of d).
TimersAfter(d, i) ==
    LET n == Len(retrying[d])
        rest == RemoveAt(retrying[d], i)
    IN IF current_transaction_status[d].waker /\ i # n
       THEN [rest EXCEPT ![n - 1].woken = TRUE]
       ELSE rest

\* The sleep of timer i resolves by `cause`: its deadline is reached (time
\* passes freely), or its waker was sent or dropped.
HandleRetryTimer(d, i, cause) ==
    /\ handler = "loop"
    /\ i \in DOMAIN retrying[d]
    /\ cause = "woken" => retrying[d][i].woken
    /\ LET cur == select_events_current(current_transaction_status[d], FALSE)
       IN /\ retrying' = [retrying EXCEPT ![d] = TimersAfter(d, i)]
          /\ IF ~cur.panic
             THEN /\ current_transaction_status' =
                         [current_transaction_status EXCEPT ![d] = cur.status]
                  /\ outgoing' = [outgoing EXCEPT ![d] =
                         Append(@, Txn(WithEdus(d, RowEvents(active[d])), cause))]
                  /\ latest_educount' = NextEducount(d)
                  /\ last' = Op("retry", d, retrying[d][i].txn, cause)
                  /\ UNCHANGED handler
             ELSE /\ Panic("retry", d)
                  /\ UNCHANGED <<current_transaction_status, outgoing, latest_educount>>
    /\ UNCHANGED <<config, active, queued, new_transactions, waking, count, edus, env>>
    /\ UNCHANGED besidesSender

(***************************************************************************)
(* handle_events: what the handler sees of a transaction, given the        *)
(* destination's answer.  handle_events_kind_push drops the result of      *)
(* send_push_notice and returns Ok.                                        *)
(***************************************************************************)
handle_events(d, answer) == IF IsPush(d) THEN "Ok" ELSE answer

\* Variant of FailuresAfter: a failure of a retry keeps the count.
FailuresAfter_keep(st) ==
    CASE st.kind = "Running" -> 1
      [] st.kind = "Retrying" -> st.failures
      [] OTHER -> 0

\* mark_failed_and_backoff: the failure count of the new Failed status, 0
\* where the function panics.
FailuresAfter(st) ==
    CASE st.kind = "Running" -> 1
      [] st.kind = "Retrying" -> st.failures + 1
      [] OTHER -> 0

\* Variant of queued_requests: a completion that takes every queued row.
queued_requests_all(d) == queued[d]

\* Variant of queued_requests: a completion that looks at no queued row.
queued_requests_none(d) == {}

\* The rows queued since the last request started, at most QUEUE_TAKE.
queued_requests(d) == Range(Take(SortedSeq(queued[d]), QUEUE_TAKE))

(***************************************************************************)
(* handler, branch 1: a transaction completes.                             *)
(***************************************************************************)
HandleResponse(d, i, answer) ==
    /\ handler = "loop"
    /\ i \in DOMAIN outgoing[d]
    /\ LET st == current_transaction_status[d]
           txn == outgoing[d][i]
           new_events == queued_requests(d)
           failures == FailuresAfter(st)
       IN IF handle_events(d, answer) = "Ok"
          THEN /\ active' = [active EXCEPT ![d] = new_events]
               /\ queued' = [queued EXCEPT ![d] = @ \ new_events]
               /\ current_transaction_status' = [current_transaction_status EXCEPT
                      ![d] = IF new_events # {} THEN Running ELSE Vacant]
               /\ outgoing' = [outgoing EXCEPT ![d] =
                      IF new_events # {}
                      THEN Append(RemoveAt(@, i), Txn(RowEvents(new_events), "queued"))
                      ELSE RemoveAt(@, i)]
               /\ retrying' = [retrying EXCEPT ![d] =
                      IF st.waker /\ @ # <<>> THEN [@ EXCEPT ![Len(@)].woken = TRUE] ELSE @]
               /\ last' = Op("response", d, txn, answer)
               /\ UNCHANGED handler
          ELSE /\ outgoing' = [outgoing EXCEPT ![d] = RemoveAt(@, i)]
               /\ IF failures > 0
                  THEN /\ failures <= env.failcap
                       /\ current_transaction_status' = [current_transaction_status
                              EXCEPT ![d] = Failed(failures, TRUE)]
                       /\ retrying' = [retrying EXCEPT ![d] = Append(@, Timer(failures, txn))]
                       /\ last' = Op("response", d, txn, answer)
                       /\ UNCHANGED handler
                  ELSE /\ Panic("response", d)
                       /\ UNCHANGED <<current_transaction_status, retrying>>
               /\ UNCHANGED <<active, queued>>
    /\ UNCHANGED <<config, new_transactions, waking, latest_educount, count, edus, env>>
    /\ UNCHANGED besidesSender

Answers == {"Ok", "Err"}

Causes == {"deadline", "woken"}

SenderNext ==
    \/ StartHandler
    \/ Restart
    \/ \E d \in Dests : send_pdu(d)
    \/ \E d \in Dests : flush_servers(d)
    \/ \E k \in EduKinds : NewEdu(k)
    \/ HandleNewEvent
    \/ HandleWake
    \/ \E d \in Dests : \E i \in DOMAIN retrying[d] : \E c \in Causes :
           HandleRetryTimer(d, i, c)
    \/ \E d \in Dests : \E i \in DOMAIN outgoing[d] : \E a \in Answers : HandleResponse(d, i, a)

Next == SenderNext

Spec == Init /\ [][Next]_vars

(***************************************************************************)
(* The handler with a database whose writes can fail: the `?` on           *)
(* mark_as_active, set_latest_educount and delete_all_active_requests_for. *)
(***************************************************************************)
StorageOps == {"mark_as_active", "set_latest_educount"}

\* Branch 4, select_events returns the error of a write: the status was
\* written by select_events_current before; the error is logged.
NewEventStorageError(op) ==
    /\ handler = "loop"
    /\ new_transactions # <<>>
    /\ LET d == Head(new_transactions)[1]
           kind == Head(new_transactions)[2]
           key == Head(new_transactions)[3]
           cur == select_events_current(current_transaction_status[d], TRUE)
       IN /\ cur.allow /\ ~cur.wake_up
          /\ op = "set_latest_educount" => IsNormal(d)
          /\ new_transactions' = Tail(new_transactions)
          /\ current_transaction_status' =
                 [current_transaction_status EXCEPT ![d] = cur.status]
          /\ IF op = "set_latest_educount" /\ kind = "Pdu"
             THEN /\ active' = [active EXCEPT ![d] = @ \cup {key}]
                  /\ queued' = [queued EXCEPT ![d] = @ \ {key}]
             ELSE UNCHANGED <<active, queued>>
          /\ last' = Op("new", d, NoTxn, "Err")
    /\ UNCHANGED <<handler, config, outgoing, retrying, waking, latest_educount, count,
                   edus, env>>
    /\ UNCHANGED besidesSender

\* Branch 2, select_events returns the error of set_latest_educount: the
\* status entry is removed.
RetryTimerStorageError(d, i) ==
    /\ handler = "loop"
    /\ i \in DOMAIN retrying[d]
    /\ IsNormal(d)
    /\ ~select_events_current(current_transaction_status[d], FALSE).panic
    /\ retrying' = [retrying EXCEPT ![d] = TimersAfter(d, i)]
    /\ current_transaction_status' = [current_transaction_status EXCEPT ![d] = Vacant]
    /\ last' = Op("retry", d, retrying[d][i].txn, "Err")
    /\ UNCHANGED <<handler, config, outgoing, active, queued, new_transactions, waking,
                   latest_educount, count, edus, env>>
    /\ UNCHANGED besidesSender

\* Branch 1, a transaction succeeded and delete_all_active_requests_for or
\* mark_as_active fails: `?` returns the error from handler(), and the
\* expect of start_handler ends the task.
ResponseStorageError(d, i) ==
    /\ handler = "loop"
    /\ i \in DOMAIN outgoing[d]
    /\ handler' = "ended"
    /\ outgoing' = [outgoing EXCEPT ![d] = RemoveAt(@, i)]
    /\ last' = Op("response", d, outgoing[d][i], "StorageErr")
    /\ UNCHANGED <<config, current_transaction_status, retrying, active, queued,
                   new_transactions, waking, latest_educount, count, edus, env>>
    /\ UNCHANGED besidesSender

StorageNext ==
    \/ SenderNext
    \/ \E op \in StorageOps : NewEventStorageError(op)
    \/ \E d \in Dests : \E i \in DOMAIN retrying[d] : RetryTimerStorageError(d, i)
    \/ \E d \in Dests : \E i \in DOMAIN outgoing[d] : ResponseStorageError(d, i)

SpecStorage == Init /\ [][StorageNext]_vars

(***************************************************************************)
(* A destination that keeps failing: the same sender with fewer events and *)
(* a failure count that goes past the cap of the backoff.                  *)
(***************************************************************************)
BackoffInit == SenderInit(2, MaxBackoffFailures) /\ JoinIdle /\ OthersIdle

SpecBackoff == BackoffInit /\ [][Next]_vars

(***************************************************************************)
(* A loaded peer: the sender with one transaction to the peer in flight,   *)
(* while rows were queued behind it or local users sent read receipts.     *)
(* The application has one more event to send.                             *)
(***************************************************************************)
LoadedInit ==
    /\ JoinIdle
    /\ OthersIdle
    /\ handler = "loop"
    /\ config = [startup_netburst |-> TRUE, startup_netburst_keep |-> -1]
    /\ current_transaction_status = [d \in Dests |-> IF IsNormal(d) THEN Running ELSE Vacant]
    /\ outgoing = [d \in Dests |->
                      IF IsNormal(d)
                      THEN <<Txn(<<Pdu(1)>> \o select_edus({}, 0).events, "new")>>
                      ELSE <<>>]
    /\ retrying = [d \in Dests |-> <<>>]
    /\ active = [d \in Dests |-> IF IsNormal(d) THEN {1} ELSE {}]
    /\ \E n \in 0 .. MaxQueued : \E m \in 0 .. MaxReceipts :
           /\ n = 0 \/ m = 0
           /\ queued = [d \in Dests |-> IF IsNormal(d) THEN 2 .. n + 1 ELSE {}]
           /\ edus = {<<"receipt", c>> : c \in n + 2 .. n + m + 1}
           /\ count = n + m + 1
    /\ new_transactions = <<>>
    /\ waking = <<>>
    /\ latest_educount = 0
    /\ env = [events |-> 1, restarted |-> FALSE, failcap |-> 1]
    /\ last = NoOp

SpecLoaded == LoadedInit /\ [][Next]_vars

(***************************************************************************)
(* A run of the server without a stop, under fair scheduling: the handler  *)
(* task polls every ready branch of its select!, every transaction         *)
(* completes (the request has a timeout), and with the clock every sleep   *)
(* reaches its deadline.                                                   *)
(***************************************************************************)
RunNext ==
    \/ StartHandler
    \/ \E d \in Dests : send_pdu(d)
    \/ \E d \in Dests : flush_servers(d)
    \/ \E k \in EduKinds : NewEdu(k)
    \/ HandleNewEvent
    \/ HandleWake
    \/ \E d \in Dests : \E i \in DOMAIN retrying[d] : \E c \in Causes :
           HandleRetryTimer(d, i, c)
    \/ \E d \in Dests : \E i \in DOMAIN outgoing[d] : \E a \in Answers : HandleResponse(d, i, a)

HandlerFairness ==
    /\ WF_vars(StartHandler)
    /\ WF_vars(HandleNewEvent)
    /\ WF_vars(HandleWake)
    /\ \A d \in Dests :
           /\ WF_vars(\E i \in DOMAIN retrying[d] : HandleRetryTimer(d, i, "woken"))
           /\ WF_vars(\E i \in DOMAIN outgoing[d] : \E a \in Answers :
                          HandleResponse(d, i, a))

ClockFairness ==
    \A d \in Dests : WF_vars(\E i \in DOMAIN retrying[d] : HandleRetryTimer(d, i, "deadline"))

RunInit == SenderInit(MaxRunEvents, MaxFailures) /\ JoinIdle /\ OthersIdle

\* Fair handler, no assumption on the clock.
SpecWake == RunInit /\ [][RunNext]_vars /\ HandlerFairness

\* Fair handler and clock.
SpecFair == RunInit /\ [][RunNext]_vars /\ HandlerFairness /\ ClockFairness

(***************************************************************************)
(* Join engine.  A request is served in one step: its clients come one at  *)
(* a time (the interleaving of concurrent operations on a room is the      *)
(* subject of the model of the state mutex below).  What the remote server *)
(* answers and what the checks of other crates decide are inputs of the    *)
(* request.                                                                *)
(***************************************************************************)
ServerOf(r) == IF r = "!home" THEN "ours" ELSE "remote"

\* The fields of the services a request reads and writes.
World == [deactivated |-> deactivated, joined |-> joined, timeline |-> timeline,
          room_state |-> room_state, room_data |-> room_data, fed |-> fed]

Resp(w, result, path, auth) == [world |-> w, result |-> result, path |-> path, auth |-> auth]

\* A member event built and signed by this server.
MemberPdu(u, state, via) ==
    [kind |-> state, sender |-> u, via |-> via, signatures |-> {"ours"}]

\* timeline.append_pdu of a member event, with the membership and the state
\* it leaves.
append_pdu(w, r, pdu) ==
    [w EXCEPT !.timeline[r] = Append(@, pdu),
              !.joined = IF pdu.kind = "join" THEN @ \cup {<<pdu.sender, r>>}
                         ELSE @ \ {<<pdu.sender, r>>},
              !.room_state[r] = IF pdu.kind = "join" THEN @ \cup {<<"member", pdu.sender>>}
                                ELSE @ \ {<<"member", pdu.sender>>}]

\* full_user_deactivate: the account is deactivated and leaves its rooms.
RECURSIVE leave_all_joined_rooms(_, _, _)
leave_all_joined_rooms(w, u, rooms) ==
    IF rooms = {} THEN w
    ELSE LET r == CHOOSE x \in rooms : TRUE
         IN leave_all_joined_rooms(append_pdu(w, r, MemberPdu(u, "leave", "deactivate")),
                                   u, rooms \ {r})

full_user_deactivate(w, u) ==
    [leave_all_joined_rooms(w, u, {r \in Rooms : <<u, r>> \in w.joined})
        EXCEPT !.deactivated = @ \cup {u}]

\* Variant of banned_room_check: it rejects and leaves the account alone.
banned_room_check_keep_account(w, u, room_id, server_name) ==
    IF u \notin admins /\ room_id # "None"
       /\ (room_id \in banned
           \/ ServerOf(room_id) \in jconfig.forbidden_remote_server_names)
    THEN Resp(w, "Forbidden", "banned", "none")
    ELSE Resp(w, "Ok", "none", "none")

\* banned_room_check; room_id and server_name are Options, "None" or a value.
\* The server name is looked at only when room_id is None.
banned_room_check(w, u, room_id, server_name) ==
    LET forbidden == jconfig.forbidden_remote_server_names
        reject == Resp(IF jconfig.auto_deactivate_banned_room_attempts
                       THEN full_user_deactivate(w, u) ELSE w,
                       "Forbidden", "banned", "none")
        pass == Resp(w, "Ok", "none", "none")
    IN IF u \in admins THEN pass
       ELSE IF room_id # "None"
       THEN IF room_id \in banned \/ ServerOf(room_id) \in forbidden
            THEN reject ELSE pass
       ELSE IF server_name # "None" /\ server_name \in forbidden
       THEN reject
       ELSE pass

\* The steps of a join over federation, in the order of the code; an input
\* names the first one that fails.
StepNo == [make_join |-> 1, room_version |-> 2, send_join |-> 3, signed_event |-> 4,
           signing_keys |-> 5, none |-> 6]

\* Variant of Passed: a join that goes on behind a failed step.
Passed_always(in, step) == TRUE

Passed(in, step) == StepNo[in.fails_at] > StepNo[step]

SendJoinState == {<<"create", "">>, <<"member", "@carol">>}

\* Variant of Authorized: a join that ignores the auth check.
Authorized_always(in) == TRUE

\* auth_check returned Ok(true).
Authorized(in) == in.auth = "true"

\* The signed event of the send_join response is looked at when the stub of
\* make_join named join_authorised_via_users_server, the room version is 8
\* or later and the response carries an event.
signed_event_applies(in) == in.authorized_via /\ in.v8 /\ in.signed

\* The signatures of the join event after the block: the signature of the
\* remote server is inserted when the signed event has one; when it has
\* none the block warns and goes on.
join_event_signatures(in) ==
    IF signed_event_applies(in) /\ in.signature THEN {"ours", "remote"} ELSE {"ours"}

join_room_by_id_helper_remote(w, u, r, in) ==
    LET asked == [w EXCEPT !.fed = @ + 1]
        sent == [asked EXCEPT !.fed = @ + 1]
        join_event == [MemberPdu(u, "join", "remote")
                          EXCEPT !.signatures = join_event_signatures(in)]
        short == [sent EXCEPT !.room_data[r] = @ \cup {"shortroomid"}]
        outliers == [short EXCEPT !.room_data[r] = @ \cup {"outliers"}]
        forced == [outliers EXCEPT !.room_state[r] = SendJoinState]
    IN IF ~Passed(in, "make_join") THEN Resp(asked, "Err", "remote", "none")
       ELSE IF ~Passed(in, "room_version")
       THEN Resp(asked, "BadServerResponse", "remote", "none")
       ELSE IF ~Passed(in, "send_join") THEN Resp(sent, "Err", "remote", "none")
       ELSE IF signed_event_applies(in) /\ in.fails_at = "signed_event"
       THEN Resp(sent, "InvalidParam", "remote", "none")
       ELSE IF in.fails_at = "signing_keys" THEN Resp(short, "Err", "remote", "none")
       ELSE IF ~Authorized(in) THEN Resp(outliers, "Forbidden", "remote", in.auth)
       ELSE Resp(append_pdu(forced, r, join_event),
                 "Ok", "remote", in.auth)

join_room_by_id_helper_local(w, u, r, servers, in) ==
    LET asked == [w EXCEPT !.fed = @ + 1]
        sent == [asked EXCEPT !.fed = @ + 1]
    IN IF in.build = "ok"
       THEN Resp(append_pdu(w, r, MemberPdu(u, "join", "local")), "Ok", "local", "none")
       ELSE IF in.restricted /\ \E i \in DOMAIN servers : servers[i] # "ours"
       THEN IF ~Passed(in, "make_join") THEN Resp(asked, "Err", "fallback", "none")
            ELSE IF ~Passed(in, "room_version")
            THEN Resp(asked, "BadServerResponse", "fallback", "none")
            ELSE IF ~Passed(in, "send_join") THEN Resp(sent, "Err", "fallback", "none")
            ELSE IF ~in.signed THEN Resp(sent, "Forbidden", "fallback", "none")
            ELSE IF ~Passed(in, "signed_event")
            THEN Resp(sent, "InvalidParam", "fallback", "none")
            ELSE IF ~Passed(in, "signing_keys") \/ in.auth # "true"
            THEN Resp(sent, "Err", "fallback", "none")
            ELSE \* handle_incoming_pdu takes the event the remote signed
                 Resp(append_pdu(sent, r, MemberPdu(u, "join", "fallback")),
                      "Ok", "fallback", "none")
       ELSE Resp(w, "Forbidden", "local", "none")

\* Variant of AlreadyJoined: a helper that never finds the user joined.
AlreadyJoined_never(w, u, r) == FALSE

\* state_cache.is_joined
AlreadyJoined(w, u, r) == <<u, r>> \in w.joined

server_in_room(w, r) == \E u \in Users : <<u, r>> \in w.joined

join_room_by_id_helper(w, u, r, servers, in) ==
    LET user_is_guest == u \in w.deactivated
    IN IF user_is_guest /\ r \notin guest_can_join
       THEN Resp(w, "Forbidden", "guest", "none")
       ELSE IF AlreadyJoined(w, u, r) THEN Resp(w, "Ok", "joined", "none")
       ELSE IF \/ server_in_room(w, r)
               \/ servers = <<>>
               \/ (Len(servers) = 1 /\ servers[1] = "ours")
       THEN join_room_by_id_helper_local(w, u, r, servers, in)
       ELSE join_room_by_id_helper_remote(w, u, r, in)

\* The inputs of a request; a field the code cannot reach (the auth check
\* behind a failed step, the signed event of a join that is not restricted)
\* has one value.  fails_at = "signed_event" stands for a signed event whose
\* event id cannot be computed or differs from the id of the event sent.
\* authorized_via, v8 and signature are read by the join over federation
\* only: the stub of make_join names join_authorised_via_users_server, the
\* room version is 8 or later, the signed event carries the signature of
\* the remote server.  Here the stub names no authorising user.
JoinInputs ==
    {in \in [fails_at : DOMAIN StepNo, auth : {"true", "false", "error"},
             build : {"ok", "err"}, restricted : BOOLEAN, signed : BOOLEAN,
             authorized_via : {FALSE}, v8 : {TRUE}, signature : {FALSE}] :
        /\ in.fails_at # "none" => in.auth = "true"
        /\ in.build = "ok" => ~in.restricted
        /\ ~in.restricted => ~in.signed}

\* The inputs of a join whose make_join stub names
\* join_authorised_via_users_server; the local append is not tried.
SignedJoinInputs ==
    {in \in [fails_at : DOMAIN StepNo, auth : {"true", "false", "error"},
             build : {"ok"}, restricted : {FALSE}, signed : BOOLEAN,
             authorized_via : {TRUE}, v8 : BOOLEAN, signature : BOOLEAN] :
        /\ in.fails_at # "none" => in.auth = "true"
        /\ ~in.signed => ~in.signature}

\* What the join over federation got from the remote server once send_join
\* was answered, for a stub that names join_authorised_via_users_server.
SendJoinRead(resp, in) ==
    IF resp.path = "remote" /\ in.authorized_via /\ Passed(in, "send_join")
    THEN [answered |-> TRUE, v8 |-> in.v8, signed |-> in.signed,
          same_id |-> in.fails_at # "signed_event", signature |-> in.signature]
    ELSE [answered |-> FALSE, v8 |-> FALSE, signed |-> FALSE, same_id |-> FALSE,
          signature |-> FALSE]

\* No invite is pending: the servers are the server of the room id.
join_room_by_id_route(u, r, in) ==
    /\ jenv.requests > 0
    /\ jenv' = [jenv EXCEPT !.requests = @ - 1]
    /\ LET check == banned_room_check(World, u, r, ServerOf(r))
           servers == <<ServerOf(r)>>
           resp == IF check.result = "Ok"
                   THEN join_room_by_id_helper(check.world, u, r, servers, in)
                   ELSE check
       IN /\ deactivated' = resp.world.deactivated
          /\ joined' = resp.world.joined
          /\ timeline' = resp.world.timeline
          /\ room_state' = resp.world.room_state
          /\ room_data' = resp.world.room_data
          /\ fed' = resp.world.fed
          /\ jlast' = [op |-> "join", user |-> u, room |-> r, result |-> resp.result,
                       path |-> resp.path, auth |-> resp.auth, alias |-> "none",
                       via |-> <<>>, send_join |-> SendJoinRead(resp, in),
                       fails_at |-> IF resp.path = "remote" THEN in.fails_at
                                    ELSE "none"]
    /\ UNCHANGED <<admins, banned, guest_can_join, jconfig>>
    /\ UNCHANGED besidesJoin

\* What a request names: a room id, or an alias with what resolve_alias
\* answers for it (the room id, and the servers of a remote alias).
Targets ==
    {[kind |-> "id", room |-> r, alias |-> "none", pre_servers |-> <<>>] : r \in Rooms}
    \cup {[kind |-> "alias", room |-> r, alias |-> a,
           pre_servers |-> IF a = "ours" THEN <<>> ELSE <<a>>] :
              r \in Rooms \cup {"None"}, a \in {"ours", "remote"}}

Vias == {<<>>, <<"remote">>}

join_room_by_id_or_alias_route(u, target, via, in) ==
    /\ jenv.requests > 0
    /\ jenv' = [jenv EXCEPT !.requests = @ - 1]
    /\ LET r == target.room
           check == IF target.kind = "id"
                    THEN banned_room_check(World, u, r, ServerOf(r))
                    ELSE banned_room_check(World, u, r, target.alias)
           servers == IF target.kind = "id" THEN via \o <<ServerOf(r)>>
                      ELSE via \o target.pre_servers
           resp == IF r = "None" THEN Resp(World, "NotFound", "alias", "none")
                   ELSE IF check.result = "Ok"
                   THEN join_room_by_id_helper(check.world, u, r, servers, in)
                   ELSE check
       IN /\ deactivated' = resp.world.deactivated
          /\ joined' = resp.world.joined
          /\ timeline' = resp.world.timeline
          /\ room_state' = resp.world.room_state
          /\ room_data' = resp.world.room_data
          /\ fed' = resp.world.fed
          /\ jlast' = [op |-> "join_or_alias", user |-> u, room |-> r,
                       result |-> resp.result, path |-> resp.path, auth |-> resp.auth,
                       alias |-> target.alias, via |-> via]
    /\ UNCHANGED <<admins, banned, guest_can_join, jconfig>>
    /\ UNCHANGED besidesJoin

\* The operator forbids a server name in the configuration.
set_forbidden_remote_server_names ==
    /\ jconfig.forbidden_remote_server_names = {}
    /\ jconfig' = [jconfig EXCEPT !.forbidden_remote_server_names = {"remote"}]
    /\ jlast' = [op |-> "config", user |-> "none", room |-> "none", result |-> "none",
                 path |-> "none", auth |-> "none", alias |-> "none",
                via |-> <<>>]
    /\ UNCHANGED <<admins, deactivated, joined, banned, guest_can_join, timeline,
                   room_state, room_data, fed, jenv>>
    /\ UNCHANGED besidesJoin

\* The state of a room stops letting guests join.
forbid_guest_access(r) ==
    /\ r \in guest_can_join
    /\ guest_can_join' = guest_can_join \ {r}
    /\ jlast' = [op |-> "guest_access", user |-> "none", room |-> r, result |-> "none",
                 path |-> "none", auth |-> "none", alias |-> "none",
                via |-> <<>>]
    /\ UNCHANGED <<admins, deactivated, joined, banned, jconfig, timeline, room_state,
                   room_data, fed, jenv>>
    /\ UNCHANGED besidesJoin

\* The sender at rest, while clients join.
SenderIdle ==
    /\ SenderInit(0, 0)
    /\ config = [startup_netburst |-> TRUE, startup_netburst_keep |-> -1]

JoinInit ==
    /\ SenderIdle
    /\ OthersIdle
    /\ admins = {"@alice"}
    /\ deactivated \in {{}, {"@bob"}}
    /\ joined = {}
    /\ banned \in {{}, {"!far"}}
    /\ guest_can_join \in {{}, Rooms}
    /\ jconfig \in [auto_deactivate_banned_room_attempts : BOOLEAN,
                    forbidden_remote_server_names : {{}}]
    /\ timeline = [r \in Rooms |-> <<>>]
    /\ room_state = [r \in Rooms |-> IF ServerOf(r) = "ours" THEN {<<"create", "">>} ELSE {}]
    /\ room_data = [r \in Rooms |-> {}]
    /\ fed = 0
    /\ jenv = [requests |-> MaxRequests]
    /\ jlast = [op |-> "none", user |-> "none", room |-> "none", result |-> "none",
                path |-> "none", auth |-> "none", alias |-> "none",
                via |-> <<>>]

JoinNext ==
    \/ \E u \in Users : \E r \in Rooms : \E in \in JoinInputs : join_room_by_id_route(u, r, in)
    \/ set_forbidden_remote_server_names
    \/ \E r \in Rooms : forbid_guest_access(r)

SpecJoin == JoinInit /\ [][JoinNext]_vars

\* Joins of rooms whose make_join stub names an authorising user.
SignedJoinNext ==
    \E u \in Users : \E r \in Rooms : \E in \in SignedJoinInputs :
        join_room_by_id_route(u, r, in)

SpecSignedJoin == JoinInit /\ [][SignedJoinNext]_vars

(***************************************************************************)
(* The pre-flight of the two join routes.  What happens behind the         *)
(* pre-flight matters only as far as a join step is taken: the requests    *)
(* are those whose federation steps all pass.                              *)
(***************************************************************************)
PreflightInputs == {in \in JoinInputs : in.fails_at = "none" /\ ~in.restricted}

PreflightNext ==
    \/ \E u \in Users : \E r \in Rooms : \E in \in PreflightInputs :
           join_room_by_id_route(u, r, in)
    \/ \E u \in Users : \E target \in Targets : \E via \in Vias :
           \E in \in PreflightInputs : join_room_by_id_or_alias_route(u, target, via, in)
    \/ set_forbidden_remote_server_names

SpecPreflight == JoinInit /\ [][PreflightNext]_vars

(***************************************************************************)
(* Invite, unban and forget routes.  A request is served in one step.      *)
(* What the event builder decides (the authorization of the event, in      *)
(* another crate) and what the remote server answers are inputs of the     *)
(* request.                                                                *)
(***************************************************************************)
RouteInputs ==
    {in \in [recipient : {"user_id", "third_party"},
             ignored : {"none", "by_sender", "by_recipient"},
             build : {"ok", "err"}, federation : {"ok", "err"}] :
        /\ in.recipient = "third_party" => in.ignored = "none" /\ in.build = "ok"
        /\ in.ignored # "none" => in.build = "ok"
        /\ in.build = "err" => in.federation = "ok"}

\* invite_helper: what it answers, the world it leaves, the events it had
\* built and the membership it gave the recipient.
invite_helper(w, sender_user, user_id, room_id, in) ==
    LET invite == append_pdu(w, room_id, MemberPdu(user_id, "invite", "none"))
        Answer(world, result, path, built, set) ==
            [world |-> world, result |-> result, path |-> path, built |-> built,
             set |-> set]
    IN IF user_id \notin admins /\ block_non_admin_invites
       THEN Answer(w, "Forbidden", "invite_helper", 0, "none")
       ELSE IF user_id \notin Users
       THEN IF in.build = "err"
            THEN Answer(w, "Err", "create_hash_and_sign_event", 1, "none")
            ELSE IF in.federation = "err"
            THEN Answer(w, "Err", "send_federation_request", 1, "none")
            ELSE Answer(invite, "Ok", "remote", 1, "invite")
       ELSE IF <<sender_user, room_id>> \notin w.joined
       THEN Answer(w, "Forbidden", "is_joined", 0, "none")
       ELSE IF in.build = "err"
       THEN Answer(w, "Err", "build_and_append_pdu", 1, "none")
       ELSE Answer(invite, "Ok", "local", 1, "invite")

\* The membership events after a request: the one the request set, and the
\* leave of every room a deactivated account was made to leave.
MembershipAfter(w, user_id, room_id, set) ==
    [k \in Members \X Rooms |->
        IF set # "none" /\ k = <<user_id, room_id>> THEN set
        ELSE IF k \in joined \ w.joined THEN "leave"
        ELSE membership[k]]

invite_user_route(sender_user, room_id, user_id, in) ==
    /\ jenv.requests > 0
    /\ jenv' = [jenv EXCEPT !.requests = @ - 1]
    /\ LET check == banned_room_check(World, sender_user, room_id, ServerOf(room_id))
           Answer(world, result, path) ==
               [world |-> world, result |-> result, path |-> path, built |-> 0,
                set |-> "none"]
           resp == IF sender_user \notin admins /\ block_non_admin_invites
                   THEN Answer(World, "Forbidden", "invite_user_route")
                   ELSE IF check.result # "Ok"
                   THEN Answer(check.world, check.result, "banned_room_check")
                   ELSE IF in.recipient # "user_id"
                   THEN Answer(check.world, "NotFound", "recipient")
                   ELSE IF in.ignored = "by_sender"
                   THEN Answer(check.world, "Forbidden", "ignored")
                   ELSE IF in.ignored = "by_recipient"
                   THEN Answer(check.world, "Ok", "ignored")
                   ELSE invite_helper(check.world, sender_user, user_id, room_id, in)
       IN /\ deactivated' = resp.world.deactivated
          /\ joined' = resp.world.joined
          /\ timeline' = resp.world.timeline
          /\ room_state' = resp.world.room_state
          /\ membership' = MembershipAfter(resp.world, user_id, room_id, resp.set)
          /\ rlast' = [op |-> "invite", sender |-> sender_user, target |-> user_id,
                       room |-> room_id, result |-> resp.result, path |-> resp.path,
                       built |-> resp.built,
                       before |-> membership[<<user_id, room_id>>]]
    /\ UNCHANGED <<admins, banned, guest_can_join, jconfig, room_data, fed, jlast>>
    /\ UNCHANGED <<forgotten, block_non_admin_invites>>
    /\ UNCHANGED <<senderVars, makeJoinVars, eventVars, migrationVars, lockVars>>

\* The member event of the user is read whatever its membership says: only
\* a user with no member event at all is refused here.
unban_user_route(sender_user, room_id, user_id, in) ==
    /\ jenv.requests > 0
    /\ jenv' = [jenv EXCEPT !.requests = @ - 1]
    /\ LET event == membership[<<user_id, room_id>>]
           unban == append_pdu(World, room_id, MemberPdu(user_id, "leave", "none"))
           Answer(world, result, path, built, set) ==
               [world |-> world, result |-> result, path |-> path, built |-> built,
                set |-> set]
           resp == IF event = "none"
                   THEN Answer(World, "BadState", "room_state_get_content", 0, "none")
                   ELSE IF in.build = "err"
                   THEN Answer(World, "Err", "build_and_append_pdu", 1, "none")
                   ELSE Answer(unban, "Ok", "unban", 1, "leave")
       IN /\ joined' = resp.world.joined
          /\ timeline' = resp.world.timeline
          /\ room_state' = resp.world.room_state
          /\ membership' = MembershipAfter(resp.world, user_id, room_id, resp.set)
          /\ rlast' = [op |-> "unban", sender |-> sender_user, target |-> user_id,
                       room |-> room_id, result |-> resp.result, path |-> resp.path,
                       built |-> resp.built, before |-> event]
    /\ UNCHANGED <<admins, deactivated, banned, guest_can_join, jconfig, room_data, fed,
                   jlast>>
    /\ UNCHANGED <<forgotten, block_non_admin_invites>>
    /\ UNCHANGED <<senderVars, makeJoinVars, eventVars, migrationVars, lockVars>>

\* Only a joined user is refused, with the error kind Unknown.
forget_room_route(sender_user, room_id) ==
    /\ jenv.requests > 0
    /\ jenv' = [jenv EXCEPT !.requests = @ - 1]
    /\ LET is_joined == <<sender_user, room_id>> \in joined
       IN /\ forgotten' = IF is_joined THEN forgotten
                          ELSE forgotten \cup {<<room_id, sender_user>>}
          /\ rlast' = [op |-> "forget", sender |-> sender_user, target |-> sender_user,
                       room |-> room_id,
                       result |-> IF is_joined THEN "Unknown" ELSE "Ok",
                       path |-> IF is_joined THEN "is_joined" ELSE "forget",
                       built |-> 0, before |-> membership[<<sender_user, room_id>>]]
    /\ UNCHANGED <<admins, deactivated, joined, banned, guest_can_join, jconfig, timeline,
                   room_state, room_data, fed, jlast>>
    /\ UNCHANGED <<membership, block_non_admin_invites>>
    /\ UNCHANGED <<senderVars, makeJoinVars, eventVars, migrationVars, lockVars>>

\* The rooms hold members in every membership; the state cache and the
\* room state agree on who is joined.
RouteInit ==
    /\ SenderIdle
    /\ ServicesIdle
    /\ admins \in {{}, {"@alice"}}
    /\ deactivated = {}
    /\ banned = {"!far"}
    /\ guest_can_join = {}
    /\ jconfig \in [auto_deactivate_banned_room_attempts : BOOLEAN,
                    forbidden_remote_server_names : {{}}]
    /\ \E a \in {"join", "leave"} : \E b \in Memberships :
           membership = [k \in Members \X Rooms |->
                            IF k = <<"@alice", "!home">> THEN a
                            ELSE IF k[1] = "@bob" THEN b
                            ELSE "none"]
    /\ joined = {k \in Users \X Rooms : membership[k] = "join"}
    /\ timeline = [r \in Rooms |-> <<>>]
    /\ room_state = [r \in Rooms |->
                        {<<"member", u>> : u \in {x \in Users : membership[<<x, r>>] = "join"}}
                        \cup (IF ServerOf(r) = "ours" THEN {<<"create", "">>} ELSE {})]
    /\ room_data = [r \in Rooms |-> {}]
    /\ fed = 0
    /\ jenv = [requests |-> MaxRequests]
    /\ jlast = [op |-> "none", user |-> "none", room |-> "none", result |-> "none",
                path |-> "none", auth |-> "none", alias |-> "none",
                via |-> <<>>]
    /\ forgotten = {}
    /\ block_non_admin_invites \in BOOLEAN
    /\ rlast = NoRequest

RouteNext ==
    \/ \E u \in Users : \E r \in Rooms : \E t \in Members : \E in \in RouteInputs :
           invite_user_route(u, r, t, in)
    \/ \E u \in Users : \E r \in Rooms : \E t \in Members : \E in \in RouteInputs :
           unban_user_route(u, r, t, in)
    \/ \E u \in Users : \E r \in Rooms : forget_room_route(u, r)

SpecRoutes == RouteInit /\ [][RouteNext]_vars

(***************************************************************************)
(* make_join_request: one step per server of the candidate list.  The      *)
(* list is revealed as the loop goes: it has at most MaxServers entries,   *)
(* at most MaxOurs of them this server.                                    *)
(***************************************************************************)
MakeJoinAnswers == {"Ok", "M_INCOMPATIBLE_ROOM_VERSION", "M_UNSUPPORTED_ROOM_VERSION",
                    "M_FORBIDDEN"}

IsRoomVersionError(answer) ==
    answer \in {"M_INCOMPATIBLE_ROOM_VERSION", "M_UNSUPPORTED_ROOM_VERSION"}

OtherIdle == SenderIdle /\ JoinIdle /\ RouteIdle

MakeJoinInit == OtherIdle /\ OthersIdle

\* The call starts: the value to return is the error "No server available".
make_join_request ==
    /\ mj_pc = "idle"
    /\ mj_pc' = "loop"
    /\ make_join_counter' = 0
    /\ incompatible_room_version_count' = 0
    /\ make_join_response_and_server' = "NoServerAvailable"
    /\ mj_hist' = NoHist
    /\ UNCHANGED <<senderVars, joinVars, eventVars, migrationVars, lockVars, routeVars>>

\* The next server of the list is this server: continue.
server_is_ours ==
    /\ mj_pc = "loop"
    /\ mj_hist.visited < MaxServers
    /\ mj_hist.ours < MaxOurs
    /\ mj_hist' = [mj_hist EXCEPT !.visited = @ + 1, !.ours = @ + 1]
    /\ UNCHANGED <<mj_pc, make_join_counter, incompatible_room_version_count,
                   make_join_response_and_server>>
    /\ UNCHANGED <<senderVars, joinVars, eventVars, migrationVars, lockVars, routeVars>>

\* The next server of the list is asked and answers.
send_make_join(answer) ==
    /\ mj_pc = "loop"
    /\ mj_hist.visited < MaxServers
    /\ LET counter == Min(make_join_counter + 1, 65535)
           incompatible == IF answer # "Ok" /\ IsRoomVersionError(answer)
                           THEN Min(incompatible_room_version_count + 1, 255)
                           ELSE incompatible_room_version_count
           unsupported == answer # "Ok"
                          /\ incompatible > INCOMPATIBLE_ROOM_VERSION_LIMIT
           exhausted == answer # "Ok" /\ ~unsupported /\ counter > MAKE_JOIN_LIMIT
       IN /\ make_join_counter' = counter
          /\ incompatible_room_version_count' = incompatible
          /\ make_join_response_and_server' =
                 IF unsupported THEN "RoomVersionUnsupported"
                 ELSE IF exhausted THEN "NoServerAvailable"
                 ELSE answer
          /\ mj_pc' = IF unsupported \/ exhausted \/ answer = "Ok"
                      THEN "returned" ELSE "loop"
          /\ mj_hist' = [mj_hist EXCEPT
                            !.visited = @ + 1,
                            !.requests = @ + 1,
                            !.run = IF IsRoomVersionError(answer) THEN @ + 1 ELSE 0,
                            !.server = IF answer = "Ok" THEN mj_hist.visited + 1 ELSE @,
                            !.aborted = IF unsupported THEN "version"
                                        ELSE IF exhausted THEN "attempts" ELSE @]
    /\ UNCHANGED <<senderVars, joinVars, eventVars, migrationVars, lockVars, routeVars>>

\* The list has no further server: the value of the last answer is returned.
servers_end ==
    /\ mj_pc = "loop"
    /\ mj_pc' = "returned"
    /\ UNCHANGED <<make_join_counter, incompatible_room_version_count,
                   make_join_response_and_server, mj_hist>>
    /\ UNCHANGED <<senderVars, joinVars, eventVars, migrationVars, lockVars, routeVars>>

MakeJoinNext ==
    \/ make_join_request
    \/ server_is_ours
    \/ \E answer \in MakeJoinAnswers : send_make_join(answer)
    \/ servers_end

SpecMakeJoin == MakeJoinInit /\ [][MakeJoinNext]_vars

(***************************************************************************)
(* The handshake of join_room_by_id_helper_remote around the call: the     *)
(* check of the room version and send_join.                                *)
(***************************************************************************)
\* Variant of room_version_check: a caller that goes on whatever the call
\* returned.
room_version_check_lenient(supported) ==
    /\ mj_pc = "returned"
    /\ mj_pc' = IF supported THEN "versioned" ELSE "failed"
    /\ mj_hist' = [mj_hist EXCEPT !.version = IF supported THEN "supported"
                                              ELSE "unsupported"]
    /\ UNCHANGED <<make_join_counter, incompatible_room_version_count,
                   make_join_response_and_server>>
    /\ UNCHANGED <<senderVars, joinVars, eventVars, migrationVars, lockVars, routeVars>>

\* The error of the call is returned; the room version of the response is
\* looked up in supported_room_versions.
room_version_check(supported) ==
    /\ mj_pc = "returned"
    /\ IF make_join_response_and_server # "Ok"
       THEN /\ mj_pc' = "failed"
            /\ UNCHANGED mj_hist
       ELSE /\ mj_pc' = IF supported THEN "versioned" ELSE "failed"
            /\ mj_hist' = [mj_hist EXCEPT !.version = IF supported THEN "supported"
                                                      ELSE "unsupported"]
    /\ UNCHANGED <<make_join_counter, incompatible_room_version_count,
                   make_join_response_and_server>>
    /\ UNCHANGED <<senderVars, joinVars, eventVars, migrationVars, lockVars, routeVars>>

\* send_join goes to remote_server, the server returned with the response.
send_join(answer) ==
    /\ mj_pc = "versioned"
    /\ mj_pc' = IF answer = "Ok" THEN "sent" ELSE "failed"
    /\ mj_hist' = [mj_hist EXCEPT !.send_join = Append(@, mj_hist.server)]
    /\ UNCHANGED <<make_join_counter, incompatible_room_version_count,
                   make_join_response_and_server>>
    /\ UNCHANGED <<senderVars, joinVars, eventVars, migrationVars, lockVars, routeVars>>

HandshakeNext ==
    \/ MakeJoinNext
    \/ \E supported \in BOOLEAN : room_version_check(supported)
    \/ \E answer \in {"Ok", "Err"} : send_join(answer)

SpecHandshake == MakeJoinInit /\ [][HandshakeNext]_vars

(***************************************************************************)
(* validate_and_add_event_id and the bad-event ratelimiter.  The clock     *)
(* advances by the waits that lead to the edges of the backoff windows.    *)
(***************************************************************************)
RECURSIVE Pow2(_)
Pow2(n) == IF n <= 0 THEN 1 ELSE 2 * Pow2(n - 1)

\* utils::math::continue_exponential_backoff_secs
continue_exponential_backoff_secs(min, max, elapsed, tries) ==
    elapsed < Min(max, min * Pow2(tries - 1))

\* Variant of back_off: every failure starts the count again.
back_off_restart(ratelimiter, id, instant) ==
    [ratelimiter EXCEPT ![id] = [time |-> instant, tries |-> 1]]

\* The closure back_off of validate_and_add_event_id.  The count is a u32
\* that saturates, far above the counts of this model.
back_off(ratelimiter, id, instant) ==
    [ratelimiter EXCEPT ![id] =
        IF @ = NoEntry THEN [time |-> instant, tries |-> 1]
        ELSE [time |-> instant, tries |-> @.tries + 1]]

Pdus == {"invalid", "bad", "good"}

Waits == {1, MAX - 1} \cup {MIN * Pow2(k) - 1 : k \in 0 .. 8}

EventInit ==
    /\ OtherIdle
    /\ MakeJoinIdle
    /\ MigrationIdle
    /\ LockIdle
    /\ \E n \in 0 .. MaxTries :
           bad_event_ratelimiter =
               [e \in EventIds |-> IF e = "$a" /\ n > 0 THEN [time |-> 0, tries |-> n]
                                   ELSE NoEntry]
    /\ now = 0
    /\ benv = [calls |-> MaxCalls, ticks |-> MaxTicks]
    /\ blast = NoCall

\* A PDU whose reference hash is id is validated; pdu tells whether its JSON
\* parses and whether verify_event accepts it.
validate_and_add_event_id(id, pdu) ==
    /\ benv.calls > 0
    /\ benv' = [benv EXCEPT !.calls = @ - 1]
    /\ LET entry == bad_event_ratelimiter[id]
           backing_off == /\ entry # NoEntry
                          /\ continue_exponential_backoff_secs(MIN, MAX, now - entry.time,
                                                               entry.tries)
       IN IF pdu = "invalid"
          THEN /\ blast' = [op |-> "validate", id |-> id, result |-> "InvalidPdu",
                            verified |-> FALSE]
               /\ UNCHANGED bad_event_ratelimiter
          ELSE IF backing_off
          THEN /\ blast' = [op |-> "validate", id |-> id, result |-> "StillBackingOff",
                            verified |-> FALSE]
               /\ UNCHANGED bad_event_ratelimiter
          ELSE IF pdu = "bad"
          THEN /\ blast' = [op |-> "validate", id |-> id,
                            result |-> "FailedVerification", verified |-> TRUE]
               /\ bad_event_ratelimiter' = back_off(bad_event_ratelimiter, id, now)
          ELSE /\ blast' = [op |-> "validate", id |-> id, result |-> "Ok",
                            verified |-> TRUE]
               /\ UNCHANGED bad_event_ratelimiter
    /\ UNCHANGED now
    /\ UNCHANGED <<senderVars, joinVars, makeJoinVars, migrationVars, lockVars, routeVars>>

\* Time passes.
Elapse(wait) ==
    /\ benv.ticks > 0
    /\ benv' = [benv EXCEPT !.ticks = @ - 1]
    /\ now' = now + wait
    /\ blast' = [op |-> "elapse", id |-> "none", result |-> "none", verified |-> FALSE]
    /\ UNCHANGED bad_event_ratelimiter
    /\ UNCHANGED <<senderVars, joinVars, makeJoinVars, migrationVars, lockVars, routeVars>>

EventNext ==
    \/ \E id \in EventIds : \E pdu \in Pdus : validate_and_add_event_id(id, pdu)
    \/ \E wait \in Waits : Elapse(wait)

SpecBadEvent == EventInit /\ [][EventNext]_vars

(***************************************************************************)
(* Startup migrations.  A startup is one step; which of its fallible       *)
(* steps fails, if any, is an input.  A step that returns the database db  *)
(* and a result res is a record; Ran is what a startup did so far.         *)
(***************************************************************************)
Database == [version |-> database_version, users |-> users_count,
             server_user |-> server_user, global |-> global,
             state_cache |-> state_cache]

\* globals.db.bump_database_version
bump_database_version(db, new_version) == [db EXCEPT !.version = new_version]

Out(db, res) == [db |-> db, res |-> res]

\* Variant of db_lt_12: the version is written before the work is done.
db_lt_12_bump_first(db, in) ==
    Out(bump_database_version(db, 12), IF in.fails_at = "db_lt_12" THEN "Err" ELSE "Ok")

\* The push rules of every local user are rewritten, then the version is
\* raised; an error of the work returns before that.
db_lt_12(db, in) ==
    IF in.fails_at = "db_lt_12" THEN Out(db, "Err")
    ELSE Out(bump_database_version(db, 12), "Ok")

db_lt_13(db, in) ==
    IF in.fails_at = "db_lt_13" THEN Out(db, "Err")
    ELSE Out(bump_database_version(db, 13), "Ok")

\* media::migrations: migrate_sha256_media while its sentinel is missing,
\* else checkup_sha256_media when media_startup_check is set.
sha256_media(db, in) ==
    IF "feat_sha256_media" \notin db.global
    THEN IF in.fails_at = "sha256_media" THEN Out(db, "Err")
         ELSE Out([db EXCEPT !.global = @ \cup {"feat_sha256_media"}], "Ok")
    ELSE IF in.media_startup_check /\ in.fails_at = "sha256_media" THEN Out(db, "Err")
    ELSE Out(db, "Ok")

\* Variant of the fix: it completes without writing its sentinel.
fix_bad_double_separator_in_state_cache_unmarked(db, in) ==
    IF in.fails_at = "fix_bad_double_separator_in_state_cache" THEN Out(db, "Err")
    ELSE Out(db, "Ok")

\* The keys are rewritten; after cleanup() the sentinel is inserted.
fix_bad_double_separator_in_state_cache(db, in) ==
    IF in.fails_at = "fix_bad_double_separator_in_state_cache" THEN Out(db, "Err")
    ELSE Out([db EXCEPT !.global = @ \cup {"fix_bad_double_separator_in_state_cache"}],
             "Ok")

\* state_cache.mark_as_joined and mark_as_left: the user is entered in one
\* table of the room and taken out of the other.
mark_as_joined(cache, u, r) ==
    [cache EXCEPT !.roomuserid_joined[r] = @ \cup {u}, !.roomuserid_left[r] = @ \ {u}]

mark_as_left(cache, u, r) ==
    [cache EXCEPT !.roomuserid_left[r] = @ \cup {u}, !.roomuserid_joined[r] = @ \ {u}]

\* The two loops over the users of a room: `for user_id in joined_members`
\* and `for user_id in non_joined_members`.
RECURSIVE mark_all(_, _, _, _)
mark_all(cache, users, r, as_joined) ==
    IF users = {} THEN cache
    ELSE LET u == CHOOSE x \in users : TRUE
         IN mark_all(IF as_joined THEN mark_as_joined(cache, u, r)
                     ELSE mark_as_left(cache, u, r),
                     users \ {u}, r, as_joined)

\* The loop over the rooms.  room_members lists roomuserid_joined; both
\* filters keep the users whose member event says join.
RECURSIVE fix_rooms(_, _)
fix_rooms(cache, room_ids) ==
    IF room_ids = {} THEN cache
    ELSE LET room_id == CHOOSE x \in room_ids : TRUE
             users_in_room == cache.roomuserid_joined[room_id]
             joined_members == {u \in users_in_room : cache.member[room_id][u] = "join"}
             non_joined_members ==
                 {u \in users_in_room : cache.member[room_id][u] = "join"}
             marked == mark_all(mark_all(cache, joined_members, room_id, TRUE),
                                non_joined_members, room_id, FALSE)
         IN fix_rooms(marked, room_ids \ {room_id})

\* The rooms are fixed, then cleanup() and the sentinel; an error of
\* cleanup() returns with the rooms rewritten and no sentinel.
retroactively_fix_bad_data_from_roomuserid_joined(db, in) ==
    LET fixed == [db EXCEPT !.state_cache = fix_rooms(@, DOMAIN @.member)]
    IN IF in.fails_at = "retroactively_fix_bad_data_from_roomuserid_joined"
       THEN Out(fixed, "Err")
       ELSE Out([fixed EXCEPT !.global =
                     @ \cup {"retroactively_fix_bad_data_from_roomuserid_joined"}], "Ok")

\* What a startup reports: the database it leaves, its result, the version
\* migrations it started, the one-shot fixes it completed, the step that
\* failed.
Done(db, result, path, ran, fixes, failed) ==
    [db |-> db, result |-> result, path |-> path, ran |-> ran, fixes |-> fixes,
     failed |-> failed]

migrate(db, in) ==
    IF db.version < 11 THEN Done(db, "Err", "migrate", <<>>, <<>>, "unsupported")
    ELSE
    LET s12 == IF db.version < 12 THEN db_lt_12(db, in) ELSE Out(db, "Ok")
        r12 == IF db.version < 12 THEN <<12>> ELSE <<>>
    IN IF s12.res # "Ok" THEN Done(s12.db, "Err", "migrate", r12, <<>>, "db_lt_12")
    ELSE
    LET s13 == IF s12.db.version < 13 THEN db_lt_13(s12.db, in) ELSE Out(s12.db, "Ok")
        r13 == IF s12.db.version < 13 THEN Append(r12, 13) ELSE r12
    IN IF s13.res # "Ok" THEN Done(s13.db, "Err", "migrate", r13, <<>>, "db_lt_13")
    ELSE
    LET media == sha256_media(s13.db, in)
    IN IF media.res # "Ok" THEN Done(media.db, "Err", "migrate", r13, <<>>, "sha256_media")
    ELSE
    LET f1 == "fix_bad_double_separator_in_state_cache"
        s1 == IF f1 \notin media.db.global
              THEN fix_bad_double_separator_in_state_cache(media.db, in)
              ELSE Out(media.db, "Ok")
        d1 == IF f1 \notin media.db.global /\ s1.res = "Ok" THEN <<f1>> ELSE <<>>
    IN IF s1.res # "Ok" THEN Done(s1.db, "Err", "migrate", r13, d1, f1)
    ELSE
    LET f2 == "retroactively_fix_bad_data_from_roomuserid_joined"
        s2 == IF f2 \notin s1.db.global
              THEN retroactively_fix_bad_data_from_roomuserid_joined(s1.db, in)
              ELSE Out(s1.db, "Ok")
        d2 == IF f2 \notin s1.db.global /\ s2.res = "Ok" THEN Append(d1, f2) ELSE d1
    IN IF s2.res # "Ok" THEN Done(s2.db, "Err", "migrate", r13, d2, f2)
       ELSE IF s2.db.version # DATABASE_VERSION
       THEN Done(s2.db, "panic", "migrate", r13, d2, "version_mismatch")
       ELSE Done(s2.db, "Ok", "migrate", r13, d2, "none")

\* admin::create_admin_room: the admin room and the server user are created.
create_admin_room(db, in) ==
    IF in.fails_at = "create_admin_room"
    THEN Out(IF in.partial THEN [db EXCEPT !.users = 1, !.server_user = TRUE] ELSE db,
             "Err")
    ELSE Out([db EXCEPT !.users = 1, !.server_user = TRUE], "Ok")

\* Variant of fresh: the version is not stamped.
fresh_unstamped(db, in) ==
    IF in.fails_at = "bump_database_version"
    THEN Done(db, "Err", "fresh", <<>>, <<>>, "bump_database_version")
    ELSE LET room == create_admin_room([db EXCEPT !.global = @ \cup Fixes], in)
         IN Done(room.db, room.res, "fresh", <<>>, <<>>,
                 IF room.res = "Ok" THEN "none" ELSE "create_admin_room")

fresh(db, in) ==
    IF in.fails_at = "bump_database_version"
    THEN Done(db, "Err", "fresh", <<>>, <<>>, "bump_database_version")
    ELSE LET stamped == bump_database_version(db, DATABASE_VERSION)
             room == create_admin_room([stamped EXCEPT !.global = @ \cup Fixes], in)
         IN Done(room.db, room.res, "fresh", <<>>, <<>>,
                 IF room.res = "Ok" THEN "none" ELSE "create_admin_room")

FallibleSteps == {"none", "db_lt_12", "db_lt_13", "sha256_media",
                  "fix_bad_double_separator_in_state_cache",
                  "retroactively_fix_bad_data_from_roomuserid_joined",
                  "bump_database_version", "create_admin_room"}

\* A field that cannot matter (the users a create_admin_room that does not
\* fail leaves half-way, the media check-up that does not fail) has one
\* value.
MigrationInputs ==
    {in \in [fails_at : FallibleSteps, partial : BOOLEAN, media_startup_check : BOOLEAN] :
        /\ in.partial => in.fails_at = "create_admin_room"
        /\ in.media_startup_check => in.fails_at = "sha256_media"}

\* The server starts.
migrations(in) ==
    /\ menv.startups > 0
    /\ menv' = [menv EXCEPT !.startups = @ - 1]
    /\ LET db == Database
           done == IF users_count > 0 /\ ~server_user
                   THEN Done(db, "Err", "server_user", <<>>, <<>>, "server_user")
                   ELSE IF users_count > 0 THEN migrate(db, in)
                   ELSE fresh(db, in)
       IN /\ database_version' = done.db.version
          /\ users_count' = done.db.users
          /\ server_user' = done.db.server_user
          /\ global' = done.db.global
          /\ state_cache' = done.db.state_cache
          /\ mlast' = [result |-> done.result, path |-> done.path,
                       before |-> database_version, ran |-> done.ran,
                       fixes |-> done.fixes, failed |-> done.failed]
          /\ fix_runs' = [f \in Fixes |->
                             IF f \in Range(done.fixes) THEN fix_runs[f] + 1
                             ELSE fix_runs[f]]
          /\ created_fresh' = (created_fresh
                                  \/ (done.path = "fresh"
                                      /\ done.failed # "bump_database_version"))
    /\ UNCHANGED <<senderVars, joinVars, makeJoinVars, eventVars, lockVars, routeVars>>

\* The operator changes server_name in the configuration: the server user,
\* named after it, is no longer among the users.
change_server_name ==
    /\ users_count > 0
    /\ server_user
    /\ server_user' = FALSE
    /\ mlast' = NoStartup
    /\ UNCHANGED <<database_version, users_count, global, menv, fix_runs, created_fresh,
                   state_cache>>
    /\ UNCHANGED <<senderVars, joinVars, makeJoinVars, eventVars, lockVars, routeVars>>

\* A database some version of the server wrote: any stored version, with or
\* without users, any sentinels.
MigrationInit ==
    /\ OtherIdle
    /\ MakeJoinIdle
    /\ EventIdle
    /\ LockIdle
    /\ database_version \in 0 .. MaxStoredVersion
    /\ users_count \in {0, 1}
    /\ server_user \in BOOLEAN
    /\ server_user => users_count > 0
    /\ global \in SUBSET Sentinels
    /\ menv = [startups |-> MaxStartups]
    /\ mlast = NoStartup
    /\ fix_runs = [f \in Fixes |-> 0]
    /\ created_fresh = FALSE
    /\ \E listed \in SUBSET {"@alice", "@bob"} :
           state_cache = [CleanStateCache EXCEPT
                             !.roomuserid_joined["!home"] = listed,
                             !.roomuserid_left["!home"] = {"@alice", "@bob"} \ listed]

MigrationNext ==
    \/ \E in \in MigrationInputs : migrations(in)
    \/ change_server_name

SpecMigration == MigrationInit /\ [][MigrationNext]_vars

(***************************************************************************)
(* Membership operations of two request tasks on one room this server is   *)
(* in.  A task takes the state mutex of the room, reads the current state  *)
(* to build its PDU (seen = the PDUs appended by then) and appends it;     *)
(* ticket is its place in the order of the acquisitions.                   *)
(***************************************************************************)
MemberOps == {"join", "leave", "invite", "invite_remote", "kick", "ban", "unban"}

LockInit ==
    /\ OtherIdle
    /\ MakeJoinIdle
    /\ EventIdle
    /\ MigrationIdle
    /\ mutex = "free"
    /\ task = [t \in Tasks |-> IdleTask]
    /\ pdus = <<>>
    /\ acquired = <<>>
    /\ lenv = [ops |-> MaxOps]

\* A request arrives and its task comes to services.rooms.state.mutex.lock.
Request(t, op) ==
    /\ lenv.ops > 0
    /\ task[t].pc = "idle"
    /\ lenv' = [lenv EXCEPT !.ops = @ - 1]
    /\ task' = [task EXCEPT ![t] = [IdleTask EXCEPT !.op = op, !.pc = "waiting"]]
    /\ UNCHANGED <<mutex, pdus, acquired>>
    /\ UNCHANGED <<senderVars, joinVars, makeJoinVars, eventVars, migrationVars, routeVars>>

\* mutex.lock(room_id).await returns the guard.
Lock(t) ==
    /\ task[t].pc = "waiting"
    /\ mutex = "free"
    /\ mutex' = t
    /\ acquired' = Append(acquired, task[t].op)
    /\ task' = [task EXCEPT ![t].pc = "locked", ![t].ticket = Len(acquired) + 1]
    /\ UNCHANGED <<pdus, lenv>>
    /\ UNCHANGED <<senderVars, joinVars, makeJoinVars, eventVars, migrationVars, routeVars>>

ThePdu(t) == [op |-> task[t].op, ticket |-> task[t].ticket, seen |-> task[t].seen]

\* build_and_append_pdu under the guard (join, leave, invite of a local user,
\* kick, ban, unban): the PDU is built on the current state and appended,
\* then the guard is dropped.  When it fails the guard is dropped with the
\* return, except in a join of a restricted room with a remote candidate
\* server, which goes on with make_join and send_join under the guard.
build_and_append_pdu(t, ok, restricted) ==
    /\ task[t].pc = "locked"
    /\ task[t].op # "invite_remote"
    /\ mutex = t
    /\ restricted => (~ok /\ task[t].op = "join")
    /\ IF ok
       THEN /\ pdus' = Append(pdus, [ThePdu(t) EXCEPT !.seen = Len(pdus)])
            /\ mutex' = "free"
            /\ task' = [task EXCEPT ![t] = IdleTask]
       ELSE IF restricted
       THEN /\ task' = [task EXCEPT ![t].pc = "federating", ![t].seen = Len(pdus)]
            /\ UNCHANGED <<mutex, pdus>>
       ELSE /\ mutex' = "free"
            /\ task' = [task EXCEPT ![t] = IdleTask]
            /\ UNCHANGED pdus
    /\ UNCHANGED <<acquired, lenv>>
    /\ UNCHANGED <<senderVars, joinVars, makeJoinVars, eventVars, migrationVars, routeVars>>

\* The join of a restricted room got its answer to send_join: with a signed
\* event of the right id the guard is dropped before the event is handled,
\* otherwise the error is returned.
send_join_answered(t, signed) ==
    /\ task[t].pc = "federating"
    /\ mutex = t
    /\ mutex' = "free"
    /\ task' = IF signed THEN [task EXCEPT ![t].pc = "unlocked"]
               ELSE [task EXCEPT ![t] = IdleTask]
    /\ UNCHANGED <<pdus, acquired, lenv>>
    /\ UNCHANGED <<senderVars, joinVars, makeJoinVars, eventVars, migrationVars, routeVars>>

\* The invite of a remote user: create_hash_and_sign_event builds the PDU on
\* the current state under the guard, then the guard is dropped and the
\* invite is sent to the server of the user.
create_hash_and_sign_event(t, ok) ==
    /\ task[t].pc = "locked"
    /\ task[t].op = "invite_remote"
    /\ mutex = t
    /\ mutex' = "free"
    /\ task' = IF ok THEN [task EXCEPT ![t].pc = "unlocked", ![t].seen = Len(pdus)]
               ELSE [task EXCEPT ![t] = IdleTask]
    /\ UNCHANGED <<pdus, acquired, lenv>>
    /\ UNCHANGED <<senderVars, joinVars, makeJoinVars, eventVars, migrationVars, routeVars>>

\* event_handler.handle_incoming_pdu of the event the remote server signed:
\* it appends the PDU under the mutex of the room, which it takes itself.
handle_incoming_pdu(t, ok) ==
    /\ task[t].pc = "unlocked"
    /\ mutex = "free"
    /\ pdus' = IF ok THEN Append(pdus, ThePdu(t)) ELSE pdus
    /\ task' = [task EXCEPT ![t] = IdleTask]
    /\ UNCHANGED <<mutex, acquired, lenv>>
    /\ UNCHANGED <<senderVars, joinVars, makeJoinVars, eventVars, migrationVars, routeVars>>

LockNext ==
    \/ \E t \in Tasks : \E op \in MemberOps : Request(t, op)
    \/ \E t \in Tasks : Lock(t)
    \/ \E t \in Tasks : \E ok \in BOOLEAN : \E restricted \in BOOLEAN :
           build_and_append_pdu(t, ok, restricted)
    \/ \E t \in Tasks : \E signed \in BOOLEAN : send_join_answered(t, signed)
    \/ \E t \in Tasks : \E ok \in BOOLEAN : create_hash_and_sign_event(t, ok)
    \/ \E t \in Tasks : \E ok \in BOOLEAN : handle_incoming_pdu(t, ok)

SpecLock == LockInit /\ [][LockNext]_vars

(***************************************************************************)
(* Properties of the sender.                                               *)
(***************************************************************************)
Keys == 1 .. MaxEvents

\* The status of the destination of the last step, before and after it.
LastDest == last'.dest

StatusBefore == current_transaction_status[LastDest]

StatusAfter == current_transaction_status'[LastDest]

\* The handler saw the transaction of the last step complete with Ok / Err.
Completed(result) ==
    /\ last'.op = "response"
    /\ last'.res # "panic"
    /\ handle_events(LastDest, last'.res) = result

\* C1: at most one transaction is in flight per destination, a destination
\* with a transaction in flight is Running or Retrying, and a fresh event for
\* a destination that is Running or Retrying starts no transaction.
OneTransactionInFlight ==
    [][/\ \A d \in Dests :
            /\ Len(outgoing'[d]) <= 1
            /\ outgoing'[d] # <<>> =>
                   current_transaction_status'[d].kind \in {"Running", "Retrying"}
       /\ (last'.op = "new" /\ StatusBefore.kind \in {"Running", "Retrying"}) =>
              /\ last'.res = "Nothing"
              /\ outgoing' = outgoing
              /\ StatusAfter = StatusBefore]_vars

\* A fresh event found its destination busy with a transaction in flight.
FreshEventOnBusyDestination ==
    /\ last.op = "new"
    /\ last.res = "Nothing"
    /\ Len(outgoing[last.dest]) = 1

\* The updates (kind and count) the EDUs of a transaction carry.
Updates(events) ==
    UNION {{<<events[i][2][1], c>> : c \in Range(events[i][2][2])} :
               i \in {j \in DOMAIN events : IsEdu(events[j])}}

\* C3: every update select_edus put into a transaction that failed is carried
\* again by the transaction that retries it, or is still above the stored
\* watermark, so that a later select_edus selects it again.
SelectedEdusAreResent ==
    (last.op = "retry" /\ last.res # "panic") =>
        LET d == last.dest
            resent == outgoing[d][Len(outgoing[d])].events
        IN \A u \in Updates(last.txn.events) :
               u \in Updates(resent) \/ u[2] > latest_educount

\* C5: the transaction that retries a failed transaction has the transaction
\* id of the failed one.
RetryKeepsTransactionId ==
    (last.op = "retry" /\ last.res # "panic") =>
        LET d == last.dest
        IN transaction_id(outgoing[d][Len(outgoing[d])].events)
               = transaction_id(last.txn.events)

WokenRetrySuccessClearsStatus ==
    [][(/\ Completed("Ok")
        /\ last'.txn.origin = "woken"
        /\ queued[LastDest] # {}) => StatusAfter = Vacant]_vars

\* C8, amended: when a re-sent transaction succeeds, the status entry is
\* cleared only if no row is queued for the destination; otherwise (as after
\* a wake by a fresh PDU, which stays queued through the backoff) the queued
\* rows become the active ones, the status is Running and one transaction
\* carrying them is in flight.
RetrySuccessClearsOrContinues ==
    [][/\ (last'.op = "new" /\ last'.res = "Wake"
              /\ Head(new_transactions)[2] = "Pdu"
              /\ Head(new_transactions)[3] \in queued[LastDest]) =>
           Head(new_transactions)[3] \in queued'[LastDest]
       /\ (Completed("Ok") /\ StatusBefore.kind = "Retrying") =>
              IF queued[LastDest] = {}
              THEN /\ StatusAfter = Vacant
                   /\ outgoing'[LastDest] = <<>>
                   /\ active'[LastDest] = {}
              ELSE LET picked == {k \in queued[LastDest] :
                                      Cardinality({j \in queued[LastDest] : j < k})
                                          < QUEUE_TAKE}
                   IN /\ StatusAfter = Running
                      /\ active'[LastDest] = picked
                      /\ queued'[LastDest] = queued[LastDest] \ picked
                      /\ outgoing'[LastDest] = <<Txn(RowEvents(picked), "queued")>>]_vars

\* A woken retry succeeded and the PDU that woke it is in flight.
WokenRetrySucceeded ==
    /\ last.op = "response"
    /\ last.res = "Ok"
    /\ last.txn.origin = "woken"
    /\ current_transaction_status[last.dest] = Running
    /\ Len(outgoing[last.dest]) = 1
    /\ outgoing[last.dest][1].origin = "queued"

\* Row k of destination d left the tables with the acknowledgement of a
\* transaction that carried it.
Acked(d, k) ==
    /\ last.op = "response"
    /\ last.dest = d
    /\ last.res = "Ok"
    /\ Pdu(k) \in Range(last.txn.events)
    /\ k \notin active[d] \cup queued[d]

FailedPending(d) ==
    /\ current_transaction_status[d].kind = "Failed"
    /\ current_transaction_status[d].failures >= 1
    /\ current_transaction_status[d].waker

\* C2: under fair scheduling every row queued for a destination is
\* eventually acknowledged and deleted, or its destination is Failed with
\* failures >= 1 and a pending waker.
RowsAckedOrBackingOff ==
    \A d \in Dests : \A k \in Keys :
        (k \in queued[d] \cup active[d]) ~> (Acked(d, k) \/ FailedPending(d))

\* C6: the timer armed at the k-th consecutive failure sleeps
\* min(30 * k^2, 86400) seconds: 30, 120, 270, ... and 86400 from k = 54 on.
BackoffIsQuadraticAndCapped ==
    \A d \in Dests :
        LET st == current_transaction_status[d]
            k == st.failures
        IN st.kind = "Failed" =>
               /\ k >= 1
               /\ Len(retrying[d]) = 1
               /\ retrying[d][1].delay = (IF 30 * k * k < 86400 THEN 30 * k * k ELSE 86400)
               /\ k = 1 => retrying[d][1].delay = 30
               /\ k = 2 => retrying[d][1].delay = 120
               /\ k = 3 => retrying[d][1].delay = 270
               /\ k = 53 => retrying[d][1].delay = 84270
               /\ k >= 54 => retrying[d][1].delay = 86400

\* A destination at its 54th consecutive failure sleeps one day.
BackoffAtCap ==
    \E d \in Dests :
        /\ current_transaction_status[d] = Failed(54, TRUE)
        /\ Len(retrying[d]) = 1
        /\ retrying[d][1].delay = 86400

\* C7: a fresh event for a destination that is Failed{n} starts no
\* transaction and sends a wake; the wake resolves the timer; the timer
\* resolved by the wake re-sends as Retrying{n}; and with a fair handler,
\* whatever the clock, the wake leads to that re-send.
FreshEventWakesFailedDestination ==
    /\ [][/\ (last'.op = "new" /\ StatusBefore.kind = "Failed") =>
                 /\ last'.res = "Wake"
                 /\ waking' = Append(waking, LastDest)
                 /\ outgoing' = outgoing
                 /\ StatusAfter = StatusBefore
          /\ (last'.op = "wake" /\ StatusBefore.kind = "Failed" /\ StatusBefore.waker) =>
                 /\ StatusAfter = Failed(StatusBefore.failures, FALSE)
                 /\ \E i \in DOMAIN retrying'[LastDest] : retrying'[LastDest][i].woken
          /\ (last'.op = "retry" /\ last'.res = "woken") =>
                 /\ StatusBefore.kind = "Failed"
                 /\ StatusAfter = Retrying(StatusBefore.failures)
                 /\ Len(outgoing'[LastDest]) = Len(outgoing[LastDest]) + 1]_vars
    /\ \A d \in Dests : \A n \in 1 .. MaxFailures + 1 :
           (current_transaction_status[d].kind = "Failed"
                /\ current_transaction_status[d].failures = n
                /\ d \in Range(waking))
             ~> (current_transaction_status[d] = Retrying(n) /\ Len(outgoing[d]) = 1)

\* A timer resolved by a wake has re-sent its destination.
RetryAfterWake ==
    /\ last.op = "retry"
    /\ last.res = "woken"
    /\ current_transaction_status[last.dest].kind = "Retrying"
    /\ outgoing[last.dest][1].origin = "woken"

\* C24: with startup_netburst disabled, the rows a destination had active
\* when the server stopped stay stored until a new message for the
\* destination starts a transaction and are then delivered: after the
\* restart a row leaves the active table only with the acknowledgement of a
\* transaction that carried it.
StoppedRowsAreDelivered ==
    [][(~config.startup_netburst /\ env.restarted) =>
           \A d \in Dests : \A k \in active[d] \ active'[d] :
               /\ Completed("Ok")
               /\ LastDest = d
               /\ Pdu(k) \in Range(last'.txn.events)]_vars

\* C25: with startup_netburst and startup_netburst_keep = k: for k >= 0 the
\* startup transaction of a destination carries at most k of its rows and
\* the other rows of the destination are deleted; for k = -1 no row is
\* dropped and all are sent again; for k = 0 all rows are dropped and no
\* delivery to any destination is attempted.
NetburstKeepsAtMostK ==
    [][(last'.op = "startup" /\ config.startup_netburst) =>
           LET k == config.startup_netburst_keep
           IN \A d \in Dests :
                  /\ k >= 0 =>
                         /\ active'[d] \subseteq active[d]
                         /\ Cardinality(active'[d]) <= k
                         /\ Cardinality(active[d]) <= k => active'[d] = active[d]
                         /\ \A i \in DOMAIN outgoing'[d] :
                                Range(outgoing'[d][i].events)
                                    = {Pdu(j) : j \in active'[d]}
                  /\ k = -1 =>
                         /\ active'[d] = active[d]
                         /\ active[d] # {} =>
                                /\ Len(outgoing'[d]) = 1
                                /\ Range(outgoing'[d][1].events)
                                       = {Pdu(j) : j \in active[d]}
                  /\ k = 0 =>
                         /\ active'[d] = {}
                         /\ outgoing'[d] = <<>>
                         /\ current_transaction_status'[d] = Vacant]_vars

\* C26: for every kind of destination a transaction whose delivery fails is
\* retried: its rows stay active and the destination goes to Failed with a
\* backoff timer; the rows of a push destination are not deleted when the
\* request to the push gateway failed.
FailedDeliveryIsRetried ==
    [][(last'.op = "response" /\ last'.res = "Err") =>
           /\ active'[LastDest] = active[LastDest]
           /\ StatusAfter.kind = "Failed"
           /\ Len(retrying'[LastDest]) = Len(retrying[LastDest]) + 1]_vars

\* C27: a failure while Running gives Failed{1}; a failure while
\* Retrying{n} gives Failed{n+1}; a timer that fires, by its deadline or by
\* a wake, turns Failed{n} into Retrying{n}; an acknowledged transaction
\* leaves the destination Running or without status, and a destination
\* becomes Retrying by a timer only, so that the next failure after an
\* acknowledgement gives Failed{1}.
FailureCounterFollowsStatus ==
    [][/\ (Completed("Err") /\ StatusBefore.kind = "Running") =>
              StatusAfter = Failed(1, TRUE)
       /\ (Completed("Err") /\ StatusBefore.kind = "Retrying") =>
              StatusAfter = Failed(StatusBefore.failures + 1, TRUE)
       /\ (last'.op = "retry" /\ last'.res # "panic") =>
              /\ StatusBefore.kind = "Failed"
              /\ StatusAfter = Retrying(StatusBefore.failures)
       /\ (last'.op = "wake" /\ StatusBefore.kind = "Failed") =>
              /\ StatusAfter.kind = "Failed"
              /\ StatusAfter.failures = StatusBefore.failures
       /\ Completed("Ok") => StatusAfter \in {Running, Vacant}
       /\ \A d \in Dests :
              (current_transaction_status'[d].kind = "Retrying"
                   /\ current_transaction_status[d].kind # "Retrying") =>
                  (last'.op = "retry" /\ LastDest = d)]_vars

\* The retry of a destination at Retrying{1} failed: it is Failed{2}.
SecondFailure ==
    /\ last.op = "response"
    /\ last.res = "Err"
    /\ last.txn.origin \in Causes
    /\ current_transaction_status[last.dest] = Failed(2, TRUE)

\* C29: when the retry timer of D fires, the transaction issued again
\* carries exactly the rows still active for D: no newly queued row and no
\* newly selected EDU is added to it.
RetryCarriesActiveRowsOnly ==
    [][(last'.op = "retry" /\ last'.res # "panic") =>
           outgoing'[LastDest][Len(outgoing'[LastDest])].events
               = RowEvents(active[LastDest])]_vars

\* C28: when a transaction to D succeeds, all active rows of D are deleted;
\* then, if D has queued rows, the 30 oldest of them (all, if there are
\* fewer) are marked active, D is Running and one new transaction carrying
\* exactly those rows is in flight; if D has none, the status entry of D is
\* removed and nothing is in flight.
AckDrainsQueue ==
    [][Completed("Ok") =>
           LET d == LastDest
               picked == {k \in queued[d] : Cardinality({j \in queued[d] : j < k}) < 30}
           IN /\ active[d] \cap active'[d] = {}
              /\ IF queued[d] = {}
                 THEN /\ StatusAfter = Vacant
                      /\ outgoing'[d] = <<>>
                      /\ active'[d] = {}
                      /\ queued'[d] = {}
                 ELSE /\ Cardinality(picked) <= 30
                      /\ StatusAfter = Running
                      /\ active'[d] = picked
                      /\ queued'[d] = queued[d] \ picked
                      /\ outgoing'[d] = <<Txn(RowEvents(picked), "queued")>>]_vars

\* An acknowledgement found more than 30 rows queued: 30 are in flight and
\* the others are still queued.
DrainedThirty ==
    /\ last.op = "response"
    /\ last.res = "Ok"
    /\ Cardinality(active[last.dest]) = 30
    /\ queued[last.dest] # {}
    /\ Len(outgoing[last.dest]) = 1
    /\ Len(outgoing[last.dest][1].events) = 30

\* C30: select_edus returns at most 16 items for a peer, the device-list
\* updates, the read receipts and the presence bundle counted together:
\* no transaction carries more than 16 EDUs.
AtMostSixteenEdus ==
    \A d \in Dests : \A i \in DOMAIN outgoing[d] :
        Cardinality({j \in DOMAIN outgoing[d][i].events :
                         IsEdu(outgoing[d][i].events[j])}) <= 16

\* A wake message for d is pending although d is not Failed, and no event
\* that could request another wake for d is left.
OnlyStaleWakes(d) ==
    /\ d \in Range(waking)
    /\ current_transaction_status[d].kind # "Failed"
    /\ env.events = 0
    /\ \A i \in DOMAIN new_transactions : new_transactions[i][1] # d

\* The last step of the handler resolved the sleep of d by its waker.
WakeSent(d) == last.op = "wake" /\ last.dest = d /\ last.res = "sent"

\* C31: stale wakes are no-ops: a wake requested for D during one Failed
\* period never cuts short a later backoff period of D; once D has left
\* Failed, a wake message for D that is still pending has no effect, also
\* after D has failed again.
StaleWakesAreNoOps ==
    \A d \in Dests : [](OnlyStaleWakes(d) => [](~WakeSent(d)))

\* C37: in every reachable state of the sender, a destination whose status
\* is Running or Retrying has a transaction in flight, and a destination
\* whose status is Failed has exactly one pending backoff timer, also when
\* a storage operation fails while a transaction is being prepared.
StatusHasSomethingPending ==
    handler = "loop" =>
        \A d \in Dests :
            LET st == current_transaction_status[d]
            IN /\ st.kind \in {"Running", "Retrying"} => outgoing[d] # <<>>
               /\ st.kind = "Failed" => Len(retrying[d]) = 1

\* C38: the unreachable! and expect assertions of the sender state machine
\* are never hit: whenever a retry timer fires for a destination its status
\* is Failed, and whenever a transaction of a destination completes with a
\* failure its status is Running or Retrying.
AssertionsNeverHit ==
    [][\A d \in Dests :
           /\ (last'.op = "retry" /\ last'.dest = d /\ Len(retrying'[d]) < Len(retrying[d]))
                  => current_transaction_status[d].kind = "Failed"
           /\ (/\ last'.op = "response" /\ last'.dest = d
               /\ last'.res \in {"Err", "panic"}
               /\ Len(outgoing'[d]) < Len(outgoing[d]))
                  => current_transaction_status[d].kind \in {"Running", "Retrying"}
           /\ last'.res # "panic"]_vars

\* A retry that followed a failure failed as well, and its timer fired.
RetryTimerFiredTwice ==
    /\ handler = "loop"
    /\ last.op = "retry"
    /\ \E d \in Dests :
           /\ last.dest = d
           /\ current_transaction_status[d] = Retrying(2)

\* C39: the handler loop never ends: no outcome of a transaction and no
\* storage error met while serving a destination makes the handler return.
HandlerNeverReturns ==
    [][handler = "loop" => handler' \notin {"ended", "panicked"}]_vars

(***************************************************************************)
(* Properties of the join engine.                                          *)
(***************************************************************************)
\* The step serves a join request of user u for room r.
JoinStep(u, r) ==
    /\ jenv'.requests < jenv.requests
    /\ jlast'.op = "join"
    /\ jlast'.user = u
    /\ jlast'.room = r

RoomUntouched(r) ==
    /\ timeline'[r] = timeline[r]
    /\ room_state'[r] = room_state[r]

\* C9: in a remote join the join PDU is appended, the state of the room set
\* and the membership made join only if auth_check returned true; when
\* auth_check returns false or an error the response is Forbidden, the PDU is
\* not appended, the state of the room is not set and the user is not joined.
RemoteJoinOnlyIfAuthorized ==
    [][\A u \in Users : \A r \in Rooms :
           (JoinStep(u, r) /\ jlast'.path = "remote") =>
               /\ (~RoomUntouched(r) \/ <<u, r>> \in joined') => jlast'.auth = "true"
               /\ jlast'.auth \in {"false", "error"} =>
                      /\ jlast'.result = "Forbidden"
                      /\ RoomUntouched(r)
                      /\ joined' = joined
               /\ jlast'.auth = "true" =>
                      /\ jlast'.result = "Ok"
                      /\ timeline'[r] = Append(timeline[r], MemberPdu(u, "join", "remote"))
                      /\ <<u, r>> \in joined']_vars

\* A remote join got the state from send_join and failed its auth check.
RemoteJoinRejected ==
    /\ jlast.op = "join"
    /\ jlast.path = "remote"
    /\ jlast.auth = "false"
    /\ jlast.result = "Forbidden"
    /\ "outliers" \in room_data[jlast.room]
    /\ timeline[jlast.room] = <<>>
    /\ room_state[jlast.room] = {}

NoSideEffect ==
    UNCHANGED <<deactivated, joined, timeline, room_state, room_data, fed, admins, banned,
                guest_can_join, jconfig>>

AnyJoinStep(u, r) ==
    /\ jenv'.requests < jenv.requests
    /\ jlast'.op \in {"join", "join_or_alias"}
    /\ jlast'.user = u
    /\ jlast'.room = r

\* The server names a request names: of the room id, of the alias, of via.
NamedServers(req) ==
    {ServerOf(req.room)} \cup Range(req.via)
        \cup (IF req.alias = "none" THEN {} ELSE {req.alias})

\* C11: a join by room id or by alias of a user who is not an admin is
\* rejected with Forbidden by the ban check, before any join step, when the
\* room is banned or when the server name of the room id, of the alias or of
\* another server named in the request is forbidden; the ban check never
\* rejects the join of an admin.
BanCheckRejectsNamedServers ==
    [][\A u \in Users : \A r \in Rooms :
           AnyJoinStep(u, r) =>
               /\ (/\ u \notin admins
                   /\ \/ r \in banned
                      \/ NamedServers(jlast') \cap jconfig.forbidden_remote_server_names
                             # {})
                  => /\ jlast'.result = "Forbidden"
                     /\ jlast'.path = "banned"
                     /\ fed' = fed
                     /\ (<<u, r>> \in joined' => <<u, r>> \in joined)
               /\ u \in admins => jlast'.path # "banned"]_vars

AbortsAfterFifteenConsecutive ==
    /\ mj_hist.run >= 15 =>
           /\ mj_pc = "returned"
           /\ make_join_response_and_server = "RoomVersionUnsupported"
    /\ make_join_response_and_server = "RoomVersionUnsupported" => mj_hist.run >= 15

\* C14: a call sends at most 50 make_join requests, and after the 50th
\* request without success it has returned the error that no server is
\* available.
AtMostFiftyRequests ==
    /\ mj_hist.requests <= 50
    /\ (mj_hist.requests = 50 /\ make_join_response_and_server # "Ok") =>
           /\ mj_pc = "returned"
           /\ make_join_response_and_server
                  \in {"NoServerAvailable", "RoomVersionUnsupported"}

\* C32: make_join is sent to the candidate servers in the order given (one
\* position of the list after the other, each server either skipped as
\* this server or asked), never to this server itself, and to no server
\* after the first one that answered successfully; send_join is sent once,
\* to the server whose make_join succeeded, and not at all when every
\* make_join failed or the room version returned is not supported.
HandshakeFollowsCandidates ==
    [][/\ mj_hist'.visited \in {mj_hist.visited, mj_hist.visited + 1}
       /\ mj_hist'.requests - mj_hist.requests <= mj_hist'.visited - mj_hist.visited
       /\ mj_hist'.requests + mj_hist'.ours = mj_hist'.visited
       /\ make_join_response_and_server = "Ok" =>
              /\ mj_hist'.visited = mj_hist.visited
              /\ mj_hist'.requests = mj_hist.requests
              /\ make_join_response_and_server' = "Ok"
       /\ Len(mj_hist'.send_join) <= 1
       /\ mj_hist'.send_join # <<>> =>
              /\ make_join_response_and_server' = "Ok"
              /\ mj_hist'.version = "supported"
              /\ mj_hist'.send_join[1] = mj_hist'.visited
              /\ mj_hist'.visited > mj_hist'.ours]_vars

\* send_join went to the third server of the list, after this server was
\* skipped and another server had refused make_join.
SendJoinToThird ==
    /\ mj_hist.send_join = <<3>>
    /\ mj_hist.ours = 1
    /\ mj_hist.requests = 2

\* C33: in a remote join whose stub names join_authorised_via_users_server,
\* when send_join returns a signed event: in a room of version 8 or later,
\* if the id of the signed event differs from the id of the event sent the
\* join fails and nothing is appended, and if it matches the join event
\* that is appended carries the signature of the remote server next to
\* ours; in a room of version 1 to 7 the appended event carries our
\* signature only.
SignedEventIsGrafted ==
    [][\A u \in Users : \A r \in Rooms :
           (/\ JoinStep(u, r)
            /\ jlast'.path = "remote"
            /\ jlast'.send_join.answered
            /\ jlast'.send_join.signed) =>
               LET sj == jlast'.send_join
                   appended == timeline'[r] # timeline[r]
                   join_event == timeline'[r][Len(timeline'[r])]
               IN /\ (sj.v8 /\ ~sj.same_id) => (jlast'.result # "Ok" /\ ~appended)
                  /\ (sj.v8 /\ sj.same_id /\ appended) =>
                         join_event.signatures = {"ours", "remote"}
                  /\ (~sj.v8 /\ appended) => join_event.signatures = {"ours"}]_vars

\* C34: when the local append of a join fails: if the room has no gate room
\* or every candidate server is this server, the local error is returned and
\* no federation request is sent; otherwise make_join and send_join are
\* tried, and whenever the remote attempt does not complete the join the
\* error returned is that of the local append.
LocalFailureIsReturned ==
    [][\A u \in Users : \A r \in Rooms :
           (JoinStep(u, r) /\ jlast'.result # "Ok") =>
               /\ jlast'.path = "local" => (jlast'.result = "Forbidden" /\ fed' = fed)
               /\ jlast'.path = "fallback" => (jlast'.result = "Forbidden" /\ fed' > fed)]_vars

\* C40: a remote join that fails at make_join, at the check of the room
\* version or at send_join leaves the local server unchanged: no PDU and no
\* outlier is stored, no room state is forced, the memberships are
\* unchanged and nothing is enqueued to the outbound sender.
FailedHandshakeLeavesNoTrace ==
    [][\A u \in Users : \A r \in Rooms :
           (/\ JoinStep(u, r)
            /\ jlast'.path = "remote"
            /\ jlast'.fails_at \in {"make_join", "room_version", "send_join"}) =>
               /\ jlast'.result # "Ok"
               /\ UNCHANGED <<timeline, room_state, room_data, joined, deactivated>>
               /\ UNCHANGED <<queued, active, new_transactions, outgoing>>]_vars

\* A join over federation failed at send_join on a server that had joined
\* another room over federation before.
SendJoinFailedAfterJoin ==
    /\ jlast.op = "join"
    /\ jlast.path = "remote"
    /\ jlast.fails_at = "send_join"
    /\ jlast.result = "Err"
    /\ joined # {}

(***************************************************************************)
(* Properties of validate_and_add_event_id.                                *)
(***************************************************************************)
\* C15: a call for an event id whose verification failed before is rejected
\* without a verification while less than min(24 h, 5 min * 2^(attempts-1))
\* has elapsed since the last failure, hence always within the first 5
\* minutes, and it is verified once that time has elapsed, hence always
\* after 24 hours; a failed verification sets last_attempt to now and raises
\* attempt_count by one (to 1 on the first failure), for that event id
\* only; a rejection during the backoff leaves the ratelimiter as it is.
BadEventBackoffWindow ==
    [][\A id \in EventIds :
           (/\ benv'.calls < benv.calls
            /\ blast'.id = id
            /\ blast'.result # "InvalidPdu") =>
               LET entry == bad_event_ratelimiter[id]
                   elapsed == now - entry.time
                   window == Min(24 * 3600, 5 * 60 * Pow2(entry.tries - 1))
                   rejected == blast'.result = "StillBackingOff"
               IN /\ rejected <=> (entry # NoEntry /\ elapsed < window)
                  /\ (entry # NoEntry /\ elapsed < 5 * 60) => rejected
                  /\ elapsed >= 24 * 3600 => ~rejected
                  /\ rejected => /\ ~blast'.verified
                                  /\ bad_event_ratelimiter' = bad_event_ratelimiter
                  /\ ~rejected => blast'.verified
                  /\ blast'.result = "FailedVerification" =>
                         bad_event_ratelimiter' =
                             [bad_event_ratelimiter EXCEPT ![id] =
                                 [time |-> now,
                                  tries |-> IF entry = NoEntry THEN 1
                                            ELSE entry.tries + 1]]
                  /\ blast'.result = "Ok" =>
                         bad_event_ratelimiter' = bad_event_ratelimiter]_vars

\* A call was rejected during the backoff of an event id that failed at least
\* twice, more than 5 minutes after the last failure.
RejectedWhileBackingOff ==
    /\ blast.result = "StillBackingOff"
    /\ bad_event_ratelimiter[blast.id].tries >= 2
    /\ now - bad_event_ratelimiter[blast.id].time >= MIN

\* C35: a successful verification clears the entry of the event id in the
\* bad-event ratelimiter: after validate_and_add_event_id succeeded for an
\* id, the id has no entry (so that a later failure of the id starts again
\* at attempt count 1).
SuccessClearsRatelimiter ==
    (blast.op = "validate" /\ blast.result = "Ok") =>
        bad_event_ratelimiter[blast.id] = NoEntry

(***************************************************************************)
(* Properties of the startup migrations.                                   *)
(***************************************************************************)
\* The step is a startup of the server.
Startup == menv'.startups < menv.startups

\* The version migrations the stored version v calls for.
Pending(v) == IF v = 11 THEN <<12, 13>> ELSE IF v = 12 THEN <<13>> ELSE <<>>

\* The stored version after the migrations of ran, the last of which failed
\* when failed is set.
VersionAfter(v, ran, failed) ==
    LET completed == IF failed THEN Len(ran) - 1 ELSE Len(ran)
    IN IF completed = 0 THEN v ELSE ran[completed]

\* C16: with a stored version greater than DATABASE_VERSION, whatever the
\* number of users, a startup does not succeed and leaves the stored version
\* as it is.
NewerDatabaseRefused ==
    [][(Startup /\ database_version > DATABASE_VERSION) =>
           /\ mlast'.result # "Ok"
           /\ database_version' = database_version]_vars

\* C17 as stated: on a database with users the version migrations that run
\* are those the stored version calls for.
MigrationsRunByVersion ==
    [][(Startup /\ users_count > 0 /\ database_version <= DATABASE_VERSION) =>
           LET v == database_version
               ran == mlast'.ran
               failed == mlast'.failed \in {"db_lt_12", "db_lt_13"}
           IN /\ v < 11 => (mlast'.result = "Err" /\ ran = <<>>
                               /\ database_version' = v)
              /\ v >= 11 => /\ IF failed THEN ran = SubSeq(Pending(v), 1, Len(ran))
                                ELSE ran = Pending(v)
                             /\ database_version' = VersionAfter(v, ran, failed)]_vars

\* C17, amended: on a database with users whose server user exists, the
\* version migrations that run are determined by the stored version v: for
\* v < 11 an error is returned, none runs and v is unchanged; for v = 11
\* db_lt_12 then db_lt_13 run, in that order; for v = 12 only db_lt_13; for
\* v = 13 none; a migration whose work fails ends the startup with an error
\* before the later ones run, and each migration raises the stored version
\* to its own number only after its work succeeded.  On a database with
\* users whose server user is missing the startup returns an error, no
\* migration runs and v is unchanged.
MigrationsRunByVersionWithServerUser ==
    [][(Startup /\ users_count > 0 /\ database_version <= DATABASE_VERSION) =>
           LET v == database_version
               ran == mlast'.ran
               failed == mlast'.failed \in {"db_lt_12", "db_lt_13"}
           IN IF ~server_user
              THEN mlast'.result = "Err" /\ ran = <<>> /\ database_version' = v
                   /\ global' = global
              ELSE /\ v < 11 => (mlast'.result = "Err" /\ ran = <<>>
                                    /\ database_version' = v /\ global' = global)
                   /\ v >= 11 =>
                          /\ IF failed
                             THEN /\ ran = SubSeq(Pending(v), 1, Len(ran))
                                  /\ ran # <<>>
                                  /\ mlast'.result = "Err"
                                  /\ global' = global
                             ELSE ran = Pending(v)
                          /\ database_version' = VersionAfter(v, ran, failed)
                          /\ mlast'.result = "Ok" => database_version' = DATABASE_VERSION]_vars

\* A startup at version 11 ran db_lt_12, then failed in db_lt_13: the stored
\* version is 12.
MigratedHalfWay ==
    /\ mlast.before = 11
    /\ mlast.ran = <<12, 13>>
    /\ mlast.failed = "db_lt_13"
    /\ database_version = 12

\* C18: whenever a startup succeeds, on a database without users (fresh) or
\* with users (migrated), the stored version is DATABASE_VERSION.
SuccessMeansCurrentVersion ==
    [][(Startup /\ mlast'.result = "Ok") =>
           /\ database_version' = DATABASE_VERSION
           /\ mlast'.path \in {"fresh", "migrate"}
           /\ mlast'.path = "fresh" <=> users_count = 0]_vars

\* A startup on a database without users and without a version succeeded.
FreshDatabaseStamped ==
    /\ mlast.result = "Ok"
    /\ mlast.path = "fresh"
    /\ mlast.before = 0
    /\ database_version = DATABASE_VERSION

\* C19: over the startups of one database each one-shot fix completes at
\* most once: it does not run when its sentinel is in table global, and its
\* sentinel is there when it has completed; on a database that fresh()
\* initialized no fix ever runs.
OneShotFixesRunOnce ==
    [][\A f \in Fixes :
           /\ fix_runs'[f] <= 1
           /\ f \in global => fix_runs'[f] = fix_runs[f]
           /\ fix_runs'[f] > fix_runs[f] => f \in global'
           /\ f \in global => f \in global'
           /\ created_fresh' => fix_runs'[f] = 0]_vars

\* A fix that completed in an earlier startup did not run in a later startup
\* that went through migrate.
FixNotRunAgain ==
    /\ mlast.path = "migrate"
    /\ mlast.result = "Ok"
    /\ mlast.fixes = <<>>
    /\ \A f \in Fixes : fix_runs[f] = 1

\* C36: after retroactively_fix_bad_data_from_roomuserid_joined, for every
\* room and every user listed as member of it, the user is marked joined
\* if and only if the member state of the user is join, and is marked left
\* otherwise; the set marked joined and the set marked left are disjoint.
RetroactiveFixFollowsMemberState ==
    [][(Startup /\ "retroactively_fix_bad_data_from_roomuserid_joined"
                       \in Range(mlast'.fixes)) =>
           \A r \in DOMAIN state_cache.member :
               /\ \A u \in state_cache.roomuserid_joined[r] :
                      /\ u \in state_cache'.roomuserid_joined[r]
                             <=> state_cache.member[r][u] = "join"
                      /\ u \in state_cache'.roomuserid_left[r]
                             <=> state_cache.member[r][u] # "join"
               /\ state_cache'.roomuserid_joined[r]
                      \cap state_cache'.roomuserid_left[r] = {}]_vars

(***************************************************************************)
(* Properties of the membership operations on one room.                    *)
(***************************************************************************)
\* C20: two membership operations on a room never interleave: every PDU was
\* built on the state that held right before its append (no other PDU was
\* appended between the read of the state and the append), and the PDUs are
\* appended in the order in which their operations acquired the mutex; the
\* restricted-join fallback and the invite of a remote user included.
MembershipOperationsDoNotInterleave ==
    /\ \A i \in DOMAIN pdus : pdus[i].seen = i - 1
    /\ \A i, j \in DOMAIN pdus : i < j => pdus[i].ticket < pdus[j].ticket

(***************************************************************************)
(* Invite, unban and forget routes: properties.                            *)
(***************************************************************************)
\* A request of the kind op was served in this step.
RouteStep(op) == jenv'.requests < jenv.requests /\ rlast'.op = op

\* C21: forget succeeds only when the membership of the user in the room is
\* leave: with any other membership (join, invite, ban, knock, none) it is
\* refused and the forgotten mark of the room for the user is unchanged;
\* while joined the refusal is an error of kind BadState.
ForgetOnlyAfterLeave ==
    [][RouteStep("forget") =>
           (rlast'.before # "leave" =>
               /\ rlast'.result # "Ok"
               /\ forgotten' = forgotten
               /\ rlast'.before = "join" => rlast'.result = "BadState")]_vars

\* C22: unban of a user whose membership in the room is not ban (join,
\* invite, leave, knock or no member event) fails with BadState and appends
\* no event to the room.
UnbanOfNotBannedFails ==
    [][RouteStep("unban") =>
           (rlast'.before # "ban" =>
               /\ rlast'.result = "BadState"
               /\ timeline' = timeline)]_vars

\* C23: with block_non_admin_invites, an invite sent by an admin is never
\* rejected by the invite gate, whoever the recipient is, and an invite sent
\* by a user who is not an admin is always rejected with Forbidden before
\* any event is built.
InviteGateLooksAtSender ==
    [][(RouteStep("invite") /\ block_non_admin_invites) =>
           IF rlast'.sender \in admins
           THEN rlast'.path \notin {"invite_user_route", "invite_helper"}
           ELSE /\ rlast'.result = "Forbidden"
                /\ rlast'.path = "invite_user_route"
                /\ rlast'.built = 0
                /\ timeline' = timeline]_vars

====
